---- MODULE Spec2Model ----
(***************************************************************************)
(* A model of the generation pipeline of the tweet-beef video backend:     *)
(*   - the TTL cache                 (src/backend/services/cache.js)       *)
(*   - the video status poller       (src/backend/services/grok.js)        *)
(*   - the single-tweet route, in its classify -> storyline -> video form  *)
(*     and in its storyline -> (video || thumbnail) form                   *)
(*                                   (src/backend/routes/beef.js)          *)
(* The specifications share the variables: CacheSpec drives the cache      *)
(* alone, PollSpec (with fairness, PollFairSpec) drives pollVideoStatus    *)
(* against every response shape, Spec drives the route handler over the    *)
(* process-wide cache.                                                     *)
(***************************************************************************)
EXTENDS Integers, Sequences, FiniteSets, TLC

VARIABLES
    now,        \* Date.now(), in milliseconds
    cache,      \* Cache.cache: the Map, a function from the stored keys to entries
    calls,      \* CacheSpec: the getOrCompute call of each caller
    hist,       \* CacheSpec: per key, the last getOrCompute call that ran alone,
                \* as a sequence of none or one record
    ncalls,     \* CacheSpec: getOrCompute calls started so far
    poll,       \* PollSpec: the state of one pollVideoStatus call
    reqs        \* Spec: the state of each request handler

vars == <<now, cache, calls, hist, ncalls, poll, reqs>>

(***************************************************************************)
(* Bounds of the model.                                                    *)
(***************************************************************************)
TickStep == 300000      \* the clock advances in steps of five minutes
MaxNow == 600000        \* the clock stops here
ClockSkewMs == 1        \* what the clock may gain between two reads in one call
MaxSkew == 1            \* how far past a tick the clock reads may drift
MaxCalls == 3           \* getOrCompute calls per behaviour of CacheSpec

(***************************************************************************)
(* JavaScript values are records that carry their type: undefined and null *)
(* are values of their own, a string is its text (Str) or, where its       *)
(* characters matter, its UTF-16 code units (Chars).                       *)
(***************************************************************************)
Undefined == [type |-> "undefined"]
Null == [type |-> "null"]
Str(s) == [type |-> "string", text |-> s]
Chars(codes) == [type |-> "string", codes |-> codes]
Num(n) == [type |-> "number", value |-> n]
Bool(b) == [type |-> "boolean", value |-> b]
None == "none"

(***************************************************************************)
(* cache.js: class Cache                                                   *)
(***************************************************************************)
defaultTtlMs == 5 * 60 * 1000

\* new Map()
emptyMap == [x \in {} |-> Undefined]

\* Map.prototype.delete
mapDelete(c, key) == [x \in (DOMAIN c) \ {key} |-> c[x]]

\* An entry taken to expire at its deadline instead of after it.
isExpiredAtDeadline(entry, t) == t >= entry.expiresAt

\* Date.now() > entry.expiresAt
isExpired(entry, t) == t > entry.expiresAt

\* A get that answers undefined for an expired entry and leaves it stored.
getLeavesExpired(c, key, t) ==
    IF key \notin DOMAIN c \/ isExpired(c[key], t)
    THEN [value |-> Undefined, cache |-> c]
    ELSE [value |-> c[key].value, cache |-> c]

\* get(key): the value returned and the Map afterwards (an expired entry is
\* deleted by the get that observes it).
get(c, key, t) ==
    IF key \notin DOMAIN c
    THEN [value |-> Undefined, cache |-> c]
    ELSE IF isExpired(c[key], t)
         THEN [value |-> Undefined, cache |-> mapDelete(c, key)]
         ELSE [value |-> c[key].value, cache |-> c]

\* set(key, value, ttlMs): Date.now() is read twice, t1 for expiresAt and then
\* t2 for createdAt.
set(c, key, value, ttlMs, t1, t2) ==
    [x \in (DOMAIN c) \cup {key} |->
        IF x = key
        THEN [value |-> value, expiresAt |-> t1 + ttlMs, createdAt |-> t2]
        ELSE c[x]]

\* clear()
clear(c) == emptyMap

\* A cleanup that also removes the entries whose expiry is the present
\* millisecond.
cleanupAtExpiry(c, t) == [x \in {k \in DOMAIN c : t < c[k].expiresAt} |-> c[x]]

\* cleanup()
cleanup(c, t) == [x \in {k \in DOMAIN c : ~isExpired(c[k], t)} |-> c[x]]

\* A getStats that counts an entry whose expiry is the present millisecond
\* as expired.
getStatsAtExpiry(c, t) ==
    [total |-> Cardinality(DOMAIN c),
     valid |-> Cardinality({k \in DOMAIN c : t < c[k].expiresAt}),
     expired |-> Cardinality({k \in DOMAIN c : t >= c[k].expiresAt})]

\* getStats()
getStats(c, t) ==
    [total |-> Cardinality(DOMAIN c),
     valid |-> Cardinality({k \in DOMAIN c : ~isExpired(c[k], t)}),
     expired |-> Cardinality({k \in DOMAIN c : isExpired(c[k], t)})]

\* A getOrCompute that tests `if (cached)`.
isHitTruthy(cached) ==
    cached \notin {Undefined, Null, Num(0), Bool(FALSE), Str("")}

\* getOrCompute, first half: `cached = this.get(key)`; a value other than
\* undefined is a hit.
isHit(cached) == cached # Undefined

(***************************************************************************)
(* cache.js: Cache.generateKey.  params is an object whose properties are  *)
(* listed as <<name, value>> pairs, names being sequences of code units.   *)
(***************************************************************************)
Object(props) == [type |-> "object", props |-> props]

\* Comparison of two strings by code units, as Array.prototype.sort does.
RECURSIVE lexLess(_, _)
lexLess(a, b) ==
    IF a = <<>> THEN b # <<>>
    ELSE IF b = <<>> THEN FALSE
    ELSE IF a[1] # b[1] THEN a[1] < b[1]
    ELSE lexLess(Tail(a), Tail(b))

\* Object.keys(params).sort()
RECURSIVE sortNames(_)
sortNames(S) ==
    IF S = {} THEN <<>>
    ELSE LET m == CHOOSE x \in S : \A y \in S \ {x} : lexLess(x, y)
         IN  <<m>> \o sortNames(S \ {m})

keys(obj) == {obj.props[i][1] : i \in 1..Len(obj.props)}

\* obj[name], undefined when there is no such property.
prop(obj, name) ==
    LET hits == {i \in 1..Len(obj.props) : obj.props[i][1] = name}
    IN  IF hits = {} THEN Undefined ELSE obj.props[CHOOSE i \in hits : TRUE][2]

\* JSON's QuoteJSONString, for text without control characters: the quote
\* and the backslash are escaped.
RECURSIVE escapeCodes(_)
escapeCodes(codes) ==
    IF codes = <<>> THEN <<>>
    ELSE IF Len(codes) = 1
    THEN IF codes[1] \in {34, 92} THEN <<92, codes[1]>> ELSE codes
    ELSE LET half == Len(codes) \div 2
         IN  escapeCodes(SubSeq(codes, 1, half))
             \o escapeCodes(SubSeq(codes, half + 1, Len(codes)))

quoteJSONString(codes) == <<34>> \o escapeCodes(codes) \o <<34>>

\* Number::toString of a natural number: its decimal digits.
RECURSIVE numberToString(_)
numberToString(n) ==
    IF n < 10 THEN <<48 + n>>
    ELSE numberToString(n \div 10) \o <<48 + (n % 10)>>

\* JSON.stringify(value, allow) with an array as replacer: of every object,
\* nested ones included, only the properties named in the array are written,
\* in the array's order; a property whose value is undefined is left out.
\* The empty sequence stands for "nothing written".
RECURSIVE serializeJSONProperty(_, _), serializeJSONObject(_, _, _, _)
serializeJSONProperty(value, allow) ==
    IF value.type = "string" THEN quoteJSONString(value.codes)
    ELSE IF value.type = "null" THEN <<110, 117, 108, 108>>
    ELSE IF value.type = "number" THEN numberToString(value.value)
    ELSE IF value.type = "object"
    THEN <<123>> \o serializeJSONObject(value, allow, 1, TRUE) \o <<125>>
    ELSE <<>>

serializeJSONObject(obj, allow, n, first) ==
    IF n > Len(allow) THEN <<>>
    ELSE LET written == serializeJSONProperty(prop(obj, allow[n]), allow)
         IN  IF written = <<>>
             THEN serializeJSONObject(obj, allow, n + 1, first)
             ELSE (IF first THEN <<>> ELSE <<44>>)
                  \o quoteJSONString(allow[n]) \o <<58>> \o written
                  \o serializeJSONObject(obj, allow, n + 1, FALSE)

\* A 32-bit integer is kept as its two 16-bit halves <<high, low>>.
Half == 2^16

\* hash << 5
shiftLeft5(h) ==
    <<(h[1] * 32 + (h[2] * 32) \div Half) % Half, (h[2] * 32) % Half>>

\* a - b, wrapped to 32 bits
minus32(a, b) ==
    LET low == a[2] - b[2]
        borrow == IF low < 0 THEN 1 ELSE 0
    IN  <<(a[1] - b[1] - borrow + 2 * Half) % Half, (low + Half) % Half>>

\* a + char, wrapped to 32 bits (char is one code unit)
plusChar32(a, char) ==
    <<(a[1] + (a[2] + char) \div Half) % Half, (a[2] + char) % Half>>

\* The signed value of the 32 bits, which is what `hash & hash` leaves.
toInt32(h) ==
    IF h[1] >= Half \div 2 THEN (h[1] - Half) * Half + h[2] ELSE h[1] * Half + h[2]

\* One round of the loop: hash = ((hash << 5) - hash) + char; hash & hash.
hashStep[h \in (0..(Half - 1)) \X (0..(Half - 1)), char \in 0..(Half - 1)] ==
    plusChar32(minus32(shiftLeft5(h), h), char)

\* The loop over paramStr, from hash = 0.  The rounds are evaluated in
\* blocks, which keeps the evaluation shallow; the result is that of the
\* loop.
BlockLength == 2^4

hashOf(paramStr) ==
    LET n == Len(paramStr)
        blocks == (n + BlockLength - 1) \div BlockLength
        last(k) == IF k * BlockLength < n THEN k * BlockLength ELSE n
        block[h \in (0..(Half - 1)) \X (0..(Half - 1)), k \in 1..blocks] ==
            LET hash[i \in ((k - 1) * BlockLength)..last(k)] ==
                    IF i = (k - 1) * BlockLength THEN h
                    ELSE hashStep[hash[i - 1], paramStr[i]]
            IN  hash[last(k)]
        after[k \in 0..blocks] ==
            IF k = 0 THEN <<0, 0>> ELSE block[after[k - 1], k]
    IN  after[blocks]

\* generateKey(prefix, params): `${prefix}:${hash}`, as the pair of its parts.
paramStrUnsorted(params) ==
    serializeJSONProperty(params, [i \in 1..Len(params.props) |-> params.props[i][1]])

\* const paramStr = JSON.stringify(params, Object.keys(params).sort())
paramStrOf(params) == serializeJSONProperty(params, sortNames(keys(params)))

generateKey(prefix, params) ==
    LET paramStr == paramStrOf(params)
    IN  <<prefix, toInt32(hashOf(paramStr))>>

(***************************************************************************)
(* The clock.                                                              *)
(***************************************************************************)
\* The second read of Date.now() inside one call: the same millisecond or a
\* later one.
SecondReads == {t \in {now, now + ClockSkewMs} :
                   t <= MaxNow /\ (t % TickStep) <= MaxSkew}

Tick ==
    /\ now + TickStep <= MaxNow
    /\ now' = now + TickStep
    /\ UNCHANGED <<cache, calls, hist, ncalls, poll, reqs>>

(***************************************************************************)
(* grok.js: getBackoffDelay and GrokClient.pollVideoStatus                 *)
(***************************************************************************)
defaultMaxAttempts == 60
pollBaseDelay == 1000
pollMaxDelay == 10000
MaxPollAttempts == 2    \* the small attempt budgets tried beside the default
JitterSteps == 2        \* Math.random() is drawn from 0, 1/2 and 99/100

\* An error message is a sequence of pieces; String.prototype.includes looks
\* for the phrase among them.
FailedPhrase == "Video generation failed"
TimeoutMessage == <<"Video generation timeout after maximum polling attempts">>
includes(message, phrase) == \E n \in 1..Len(message) : message[n] = phrase

\* JavaScript truthiness: undefined, null and the empty string are falsy.
truthy(x) ==
    /\ x.type \notin {"undefined", "null"}
    /\ x.type = "string" => (x # Str("") /\ x # Chars(<<>>))

\* baseDelay * Math.pow(1.5, attempt), capped at maxDelay, as a fraction
\* <<numerator, denominator>>.  The product only grows with attempt, so the
\* cap is applied as soon as it is passed.
RECURSIVE cappedPowerFrom(_, _, _, _)
cappedPowerFrom(n, num, den, maxDelay) ==
    IF num > maxDelay * den THEN <<maxDelay, 1>>
    ELSE IF n = 0 THEN <<num, den>>
    ELSE cappedPowerFrom(n - 1, num * 3, den * 2, maxDelay)

\* A schedule that doubles the delay with every attempt.
cappedPowerOfTwo(attempt, baseDelay, maxDelay) ==
    IF baseDelay * 2^attempt > maxDelay THEN <<maxDelay, 1>>
    ELSE <<baseDelay * 2^attempt, 1>>

cappedPower(attempt, baseDelay, maxDelay) ==
    cappedPowerFrom(attempt, baseDelay, 1, maxDelay)

\* getBackoffDelay(attempt, baseDelay, maxDelay), with Math.random() = rnd/100:
\* Math.floor(delay + delay * 0.1 * random), that is the integer part of
\* delay * (1000 + rnd) / 1000, computed from the integer part and the
\* remainder of delay so that the products stay within 32 bits.
getBackoffDelay(attempt, baseDelay, maxDelay, rnd) ==
    LET d == cappedPower(attempt, baseDelay, maxDelay)
        whole == d[1] \div d[2]
        rest == d[1] % d[2]
    IN  (whole * (1000 + rnd) + (rest * (1000 + rnd)) \div d[2]) \div 1000

Randoms == {0, 99} \cup {(100 * n) \div JitterSteps : n \in 0..(JitterSteps - 1)}

\* What one status check can bring back.  http is "ok", "429", "500" or
\* "throw" (fetch rejected); body is "json", "null" (the JSON text null) or
\* "unparsable" (response.json() throws); the other fields are those of the
\* parsed object that the poller reads.
NoData(http, body) ==
    [http |-> http, body |-> body, video_url |-> Undefined, url |-> Undefined,
     status |-> Undefined, output_url |-> Undefined, error |-> Undefined,
     message |-> Undefined]

Responses ==
    {NoData("429", "none"), NoData("500", "none"), NoData("throw", "none"),
     NoData("ok", "unparsable"), NoData("ok", "null")}
    \cup
    [http : {"ok"}, body : {"json"},
     video_url : {Undefined, Str("https://vidgen.x.ai/nested.mp4")},
     url : {Undefined, Str(""), Str("https://vidgen.x.ai/flat.mp4")},
     status : {Undefined, Str("processing"), Str("completed"), Str("failed")},
     output_url : {Undefined, Str("https://vidgen.x.ai/output.mp4")},
     error : {Undefined, Str("policy violation")},
     message : {Undefined, Str("job crashed")}]

\* The messages of what fetch and response.json() throw, and of the TypeError
\* of reading a property of null.
ThrownMessage(resp) ==
    IF resp.http = "throw" THEN <<"fetch failed">>
    ELSE IF resp.body = "unparsable" THEN <<"Unexpected token < in JSON at position 0">>
    ELSE <<"Cannot read properties of null (reading 'video')">>

\* A loop that runs once too often.
loopContinuesInclusive(attempt, maxAttempts) == attempt <= maxAttempts

\* `for (let attempt = 0; attempt < maxAttempts; attempt++)`
loopContinues(attempt, maxAttempts) == attempt < maxAttempts

\* A try block that looks at the flat url field before the nested one.
tryBlockFlatFirst(resp) ==
    IF resp.http = "throw" \/ (resp.http = "ok" /\ resp.body # "json")
    THEN [kind |-> "throw", url |-> Undefined, message |-> ThrownMessage(resp)]
    ELSE IF resp.http # "ok"
    THEN [kind |-> "next", url |-> Undefined, message |-> <<>>]
    ELSE IF truthy(resp.url)
    THEN [kind |-> "return", url |-> resp.url, message |-> <<>>]
    ELSE IF truthy(resp.video_url)
    THEN [kind |-> "return", url |-> resp.video_url, message |-> <<>>]
    ELSE IF resp.status = Str("completed") /\ truthy(resp.output_url)
    THEN [kind |-> "return", url |-> resp.output_url, message |-> <<>>]
    ELSE IF resp.status = Str("failed") \/ truthy(resp.error)
    THEN [kind |-> "throw", url |-> Undefined,
          message |-> <<FailedPhrase, ": ", "unknown">>]
    ELSE [kind |-> "next", url |-> Undefined, message |-> <<>>]

\* The body of the try block for one response: what the iteration ends with.
\* "return" carries the URL, "throw" the message of the error thrown inside
\* the try, "next" falls through to the next iteration.
tryBlock(resp) ==
    IF resp.http = "throw" \/ (resp.http = "ok" /\ resp.body # "json")
    THEN [kind |-> "throw", url |-> Undefined, message |-> ThrownMessage(resp)]
    ELSE IF resp.http # "ok"
    THEN [kind |-> "next", url |-> Undefined, message |-> <<>>]
    ELSE IF truthy(resp.video_url)
    THEN [kind |-> "return", url |-> resp.video_url, message |-> <<>>]
    ELSE IF truthy(resp.url)
    THEN [kind |-> "return", url |-> resp.url, message |-> <<>>]
    ELSE IF resp.status = Str("completed") /\ truthy(resp.output_url)
    THEN [kind |-> "return", url |-> resp.output_url, message |-> <<>>]
    ELSE IF resp.status = Str("failed") \/ truthy(resp.error)
    THEN [kind |-> "throw", url |-> Undefined,
          message |-> <<FailedPhrase, ": ",
                        IF truthy(resp.error) THEN resp.error.text
                        ELSE IF truthy(resp.message) THEN resp.message.text
                        ELSE "unknown">>]
    ELSE [kind |-> "next", url |-> Undefined, message |-> <<>>]

\* A catch clause that swallows every error, and one that rethrows every error.
catchRethrowsNothing(message) == FALSE
catchRethrowsAll(message) == TRUE

\* The catch clause: an error that mentions the phrase is rethrown, any other
\* is logged and the loop goes on.
catchRethrows(message) == includes(message, FailedPhrase)

\* last is the response of the latest status check, until the next is sent;
\* limited tells whether some check of this call was answered 429.
IdlePoll ==
    [pc |-> "idle", maxAttempts |-> 0, attempt |-> 0, checks |-> 0, delay |-> 0,
     last |-> <<>>, limited |-> FALSE, url |-> Undefined, error |-> <<>>]

\* The top of the loop: the next delay is computed and slept, or the loop is
\* over and the timeout is thrown.
loopTop(p, attempt, rnd) ==
    IF loopContinues(attempt, p.maxAttempts)
    THEN [p EXCEPT !.pc = "sleeping", !.attempt = attempt,
                   !.delay = getBackoffDelay(attempt, pollBaseDelay, pollMaxDelay, rnd)]
    ELSE [p EXCEPT !.pc = "timeout", !.attempt = attempt, !.error = TimeoutMessage]

\* pollVideoStatus(requestId, maxAttempts) is called.
PollStart(maxAttempts, rnd) ==
    /\ poll.pc = "idle"
    /\ poll' = loopTop([IdlePoll EXCEPT !.maxAttempts = maxAttempts], 0, rnd)
    /\ UNCHANGED <<now, cache, calls, hist, ncalls, reqs>>

\* `await sleep(delay)` is over and the status check is sent.
PollWake ==
    /\ poll.pc = "sleeping"
    /\ poll' = [poll EXCEPT !.pc = "fetching", !.checks = @ + 1, !.last = <<>>]
    /\ UNCHANGED <<now, cache, calls, hist, ncalls, reqs>>

\* The status check has settled with `resp`: the rest of the iteration, up to
\* the next sleep or the end of the call.
PollCheck(resp, rnd) ==
    /\ poll.pc = "fetching"
    /\ LET t == tryBlock(resp)
           p == [poll EXCEPT !.last = <<resp>>,
                             !.limited = @ \/ resp.http = "429"]
       IN  poll' =
             IF t.kind = "return"
             THEN [p EXCEPT !.pc = "completed", !.url = t.url]
             ELSE IF t.kind = "throw" /\ catchRethrows(t.message)
             THEN [p EXCEPT !.pc = "failed", !.error = t.message]
             ELSE loopTop(p, poll.attempt + 1, rnd)
    /\ UNCHANGED <<now, cache, calls, hist, ncalls, reqs>>

\* The caller has the URL or the error; another job may be polled.
PollReturn ==
    /\ poll.pc \in {"completed", "failed", "timeout"}
    /\ poll' = IdlePoll
    /\ UNCHANGED <<now, cache, calls, hist, ncalls, reqs>>

AttemptBudgets == (0..MaxPollAttempts) \cup {defaultMaxAttempts}

PollInit ==
    /\ now = 0
    /\ cache = emptyMap
    /\ calls = <<>>
    /\ hist = <<>>
    /\ ncalls = 0
    /\ poll = IdlePoll
    /\ reqs = <<>>

PollNext ==
    \/ \E m \in AttemptBudgets, rnd \in Randoms : PollStart(m, rnd)
    \/ PollWake
    \/ \E resp \in Responses, rnd \in Randoms : PollCheck(resp, rnd)
    \/ PollReturn

PollSpec == PollInit /\ [][PollNext]_vars

\* setTimeout fires and every fetch settles: a sleeping or fetching poller
\* takes its next step.
PollFairSpec ==
    /\ PollSpec
    /\ WF_vars(PollWake)
    /\ WF_vars(\E resp \in Responses, rnd \in Randoms : PollCheck(resp, rnd))

(***************************************************************************)
(* BackoffSpec: getBackoffDelay called with arguments of every kind.       *)
(* poll holds the arguments of the call and, once it has returned, the     *)
(* delay.                                                                  *)
(***************************************************************************)
MaxBackoffAttempt == 7  \* attempts 0..MaxBackoffAttempt are tried

BaseDelays == {pollBaseDelay, 2 * pollBaseDelay}
MaxDelays == {pollMaxDelay \div 2, pollMaxDelay, 3 * pollMaxDelay}

BackoffInit ==
    /\ now = 0
    /\ cache = emptyMap
    /\ calls = <<>>
    /\ hist = <<>>
    /\ ncalls = 0
    /\ reqs = <<>>
    /\ poll \in [pc : {"called"}, attempt : 0..MaxBackoffAttempt,
                  baseDelay : BaseDelays, maxDelay : MaxDelays,
                  random : Randoms, delay : {0}]

\* getBackoffDelay(attempt, baseDelay, maxDelay) returns.
BackoffReturn ==
    /\ poll.pc = "called"
    /\ poll' = [poll EXCEPT !.pc = "returned",
                            !.delay = getBackoffDelay(poll.attempt, poll.baseDelay,
                                                      poll.maxDelay, poll.random)]
    /\ UNCHANGED <<now, cache, calls, hist, ncalls, reqs>>

BackoffNext == BackoffReturn

BackoffSpec == BackoffInit /\ [][BackoffNext]_vars

(***************************************************************************)
(* CacheSpec: callers of getOrCompute and of the other cache operations.   *)
(* A call of getOrCompute is two steps: the synchronous part up to         *)
(* `await computeFn()` (GocStart), and the settlement of computeFn         *)
(* (GocComputeOk, GocComputeFail).  Anything may run in between.           *)
(***************************************************************************)
Callers == {"c1", "c2"}
CacheKeys == {"k1", "k2"}
ComputeValues == {Str("v1"), Str("v2"), Undefined}
ComputeErrors == {"Compute failed"}
CallTtls == {defaultTtlMs}

IdleCall ==
    [pc |-> "idle", key |-> None, ttl |-> 0, start |-> 0, invoked |-> FALSE,
     outcome |-> None, result |-> Undefined, error |-> None,
     pre |-> emptyMap, quiet |-> TRUE, solo |-> TRUE,
     first |-> <<>>, within |-> FALSE]

\* What a finished call leaves for the next call on its key: did it invoke
\* computeFn, how did it end, and when does the entry it used or wrote expire.
Summary(call, deadline) ==
    [invoked |-> call.invoked, outcome |-> call.outcome, result |-> call.result,
     deadline |-> deadline]

\* The keys whose entry differs between two Maps.
ChangedKeys(c1, c2) ==
    {k \in (DOMAIN c1) \cup (DOMAIN c2) :
        \/ k \notin DOMAIN c1
        \/ k \notin DOMAIN c2
        \/ c1[k] # c2[k]}

\* Another caller's step changed the Map after a call had started and before
\* its caller took the result.
Disturb(cs, c, newCache) ==
    [d \in Callers |->
        IF d # c /\ cs[d].pc # "idle" /\ newCache # cache
        THEN [cs[d] EXCEPT !.quiet = FALSE]
        ELSE cs[d]]

\* hist forgets the last call on every key whose entry a step has changed.
Touch(h, newCache) ==
    [k \in CacheKeys |-> IF k \in ChangedKeys(cache, newCache) THEN <<>> ELSE h[k]]

\* hist after a call on its key has finished.
Finished(h, call, deadline) ==
    [h EXCEPT ![call.key] =
        IF call.solo THEN <<Summary(call, deadline)>> ELSE <<>>]

\* A getOrCompute that joins a computation in flight on its key instead of
\* invoking computeFn again.
GocStartSingleFlight(c, key, ttlMs) ==
    /\ calls[c].pc = "idle"
    /\ ncalls < MaxCalls
    /\ LET g == get(cache, key, now)
           joined == \E d \in Callers \ {c} :
                         calls[d].pc = "computing" /\ calls[d].key = key
           hit == isHit(g.value) \/ joined
           others == {d \in Callers \ {c} :
                         calls[d].pc = "computing" /\ calls[d].key = key}
           first == IF others = {} THEN hist[key] ELSE <<>>
           me == [pc |-> IF hit THEN "done" ELSE "computing",
                  key |-> key, ttl |-> ttlMs, start |-> now,
                  invoked |-> ~hit,
                  outcome |-> IF hit THEN "hit" ELSE None,
                  result |-> g.value, error |-> None,
                  pre |-> IF hit THEN emptyMap ELSE cache,
                  quiet |-> TRUE, solo |-> (others = {}),
                  first |-> first,
                  within |-> (first # <<>> /\ now <= first[1].deadline)]
           cs == [d \in Callers |->
                    IF d = c THEN me
                    ELSE IF d \in others THEN [calls[d] EXCEPT !.solo = FALSE]
                    ELSE calls[d]]
       IN  /\ cache' = g.cache
           /\ calls' = Disturb(cs, c, g.cache)
           /\ hist' = IF hit
                      THEN Finished(hist, me, cache[key].expiresAt)
                      ELSE Touch(hist, g.cache)
    /\ ncalls' = ncalls + 1
    /\ UNCHANGED <<now, poll, reqs>>

\* getOrCompute(key, computeFn, ttlMs) up to the await: a hit returns, a miss
\* invokes computeFn.
GocStart(c, key, ttlMs) ==
    /\ calls[c].pc = "idle"
    /\ ncalls < MaxCalls
    /\ LET g == get(cache, key, now)
           hit == isHit(g.value)
           others == {d \in Callers \ {c} :
                         calls[d].pc = "computing" /\ calls[d].key = key}
           first == IF others = {} THEN hist[key] ELSE <<>>
           me == [pc |-> IF hit THEN "done" ELSE "computing",
                  key |-> key, ttl |-> ttlMs, start |-> now,
                  invoked |-> ~hit,
                  outcome |-> IF hit THEN "hit" ELSE None,
                  result |-> g.value, error |-> None,
                  pre |-> IF hit THEN emptyMap ELSE cache,
                  quiet |-> TRUE, solo |-> (others = {}),
                  first |-> first,
                  within |-> (first # <<>> /\ now <= first[1].deadline)]
           cs == [d \in Callers |->
                    IF d = c THEN me
                    ELSE IF d \in others THEN [calls[d] EXCEPT !.solo = FALSE]
                    ELSE calls[d]]
       IN  /\ cache' = g.cache
           /\ calls' = Disturb(cs, c, g.cache)
           /\ hist' = IF hit
                      THEN Finished(hist, me, cache[key].expiresAt)
                      ELSE Touch(hist, g.cache)
    /\ ncalls' = ncalls + 1
    /\ UNCHANGED <<now, poll, reqs>>

\* A getOrCompute that looks at the Map again after the await and keeps an
\* entry stored meanwhile, returning its value.
GocComputeOkFirstWins(c, value, t2) ==
    /\ calls[c].pc = "computing"
    /\ LET call == calls[c]
           newCache == IF call.key \in DOMAIN cache THEN cache
                       ELSE set(cache, call.key, value, call.ttl, now, t2)
           me == [call EXCEPT !.pc = "done", !.outcome = "computed",
                              !.result = newCache[call.key].value]
       IN  /\ cache' = newCache
           /\ calls' = Disturb([calls EXCEPT ![c] = me], c, newCache)
           /\ hist' = Finished(hist, me, now + call.ttl)
    /\ now' = t2
    /\ UNCHANGED <<ncalls, poll, reqs>>

\* computeFn resolved with `value`: this.set(key, value, ttlMs); return value.
GocComputeOk(c, value, t2) ==
    /\ calls[c].pc = "computing"
    /\ LET call == calls[c]
           newCache == set(cache, call.key, value, call.ttl, now, t2)
           me == [call EXCEPT !.pc = "done", !.outcome = "computed",
                              !.result = value]
       IN  /\ cache' = newCache
           /\ calls' = Disturb([calls EXCEPT ![c] = me], c, newCache)
           /\ hist' = Finished(hist, me, now + call.ttl)
    /\ now' = t2
    /\ UNCHANGED <<ncalls, poll, reqs>>

\* A getOrCompute that stores in a finally clause: the rejection is cached
\* as undefined.
GocComputeFailStoring(c, err) ==
    /\ calls[c].pc = "computing"
    /\ LET call == calls[c]
           newCache == set(cache, call.key, Undefined, call.ttl, now, now)
           me == [call EXCEPT !.pc = "done", !.outcome = "raised", !.error = err]
       IN  /\ cache' = newCache
           /\ calls' = Disturb([calls EXCEPT ![c] = me], c, newCache)
           /\ hist' = Finished(hist, me, now + call.ttl)
    /\ UNCHANGED <<now, ncalls, poll, reqs>>

\* computeFn threw or rejected: the await throws, set is not reached.
GocComputeFail(c, err) ==
    /\ calls[c].pc = "computing"
    /\ LET call == calls[c]
           me == [call EXCEPT !.pc = "done", !.outcome = "raised", !.error = err]
       IN  /\ calls' = [calls EXCEPT ![c] = me]
           /\ hist' = Finished(hist, me, now + call.ttl)
    /\ UNCHANGED <<now, cache, ncalls, poll, reqs>>

\* The caller has its result (or its exception) and may call again.
GocReturn(c) ==
    /\ calls[c].pc = "done"
    /\ calls' = [calls EXCEPT ![c] = IdleCall]
    /\ UNCHANGED <<now, cache, hist, ncalls, poll, reqs>>

\* The other operations of the class, called by anyone.
CacheGet(key) ==
    /\ cache' = get(cache, key, now).cache
    /\ cache' # cache
    /\ calls' = Disturb(calls, None, cache')
    /\ hist' = Touch(hist, cache')
    /\ UNCHANGED <<now, ncalls, poll, reqs>>

CacheClear ==
    /\ cache # emptyMap
    /\ cache' = clear(cache)
    /\ calls' = Disturb(calls, None, cache')
    /\ hist' = Touch(hist, cache')
    /\ UNCHANGED <<now, ncalls, poll, reqs>>

CacheCleanup ==
    /\ cache' = cleanup(cache, now)
    /\ cache' # cache
    /\ calls' = Disturb(calls, None, cache')
    /\ hist' = Touch(hist, cache')
    /\ UNCHANGED <<now, ncalls, poll, reqs>>

NoReqs == <<>>

CacheInit ==
    /\ now = 0
    /\ cache = emptyMap
    /\ calls = [c \in Callers |-> IdleCall]
    /\ hist = [k \in CacheKeys |-> <<>>]
    /\ ncalls = 0
    /\ poll = IdlePoll
    /\ reqs = NoReqs

CacheNext ==
    \/ Tick
    \/ \E c \in Callers, key \in CacheKeys, ttlMs \in CallTtls : GocStart(c, key, ttlMs)
    \/ \E c \in Callers, value \in ComputeValues, t2 \in SecondReads :
          GocComputeOk(c, value, t2)
    \/ \E c \in Callers, err \in ComputeErrors : GocComputeFail(c, err)
    \/ \E c \in Callers : GocReturn(c)
    \/ \E key \in CacheKeys : CacheGet(key)
    \/ CacheClear
    \/ CacheCleanup

CacheSpec == CacheInit /\ [][CacheNext]_vars

(***************************************************************************)
(* HitSpec: getOrCompute with compute functions that resolve with falsy    *)
(* values.  The calls are those of CacheSpec, each reading the clock once.  *)
(***************************************************************************)
HitValues == {Undefined, Null, Num(0), Bool(FALSE), Str(""), Str("v1")}

HitNext ==
    \/ Tick
    \/ \E c \in Callers, key \in CacheKeys, ttlMs \in CallTtls : GocStart(c, key, ttlMs)
    \/ \E c \in Callers, value \in HitValues : GocComputeOk(c, value, now)
    \/ \E c \in Callers : GocReturn(c)

HitSpec == CacheInit /\ [][HitNext]_vars

(***************************************************************************)
(* GetSpec: set and get of one Cache under the clock.  reqs holds the      *)
(* last get: its key, the time it read, the entry of the key before and    *)
(* after it, and the value it returned.                                    *)
(***************************************************************************)
GetValues == {Str("v1"), Undefined}

\* this.cache.get(key) of the Map: the entry, or undefined.
entryOf(c, key) == IF key \in DOMAIN c THEN c[key] ELSE Undefined

IdleGet ==
    [pc |-> "idle", key |-> None, at |-> 0, before |-> Undefined,
     after |-> Undefined, value |-> Undefined]

GetInit ==
    /\ now = 0
    /\ cache = emptyMap
    /\ calls = <<>>
    /\ hist = <<>>
    /\ ncalls = 0
    /\ poll = IdlePoll
    /\ reqs = IdleGet

\* set(key, value) with the default ttl
GetSet(key, value, t2) ==
    /\ cache' = set(cache, key, value, defaultTtlMs, now, t2)
    /\ UNCHANGED <<now, calls, hist, ncalls, poll, reqs>>

\* get(key)
GetCall(key) ==
    LET got == get(cache, key, now)
    IN  /\ cache' = got.cache
        /\ reqs' = [pc |-> "got", key |-> key, at |-> now,
                    before |-> entryOf(cache, key),
                    after |-> entryOf(got.cache, key),
                    value |-> got.value]
        /\ UNCHANGED <<now, calls, hist, ncalls, poll>>

GetNext ==
    \/ Tick
    \/ \E key \in CacheKeys, value \in GetValues, t2 \in SecondReads :
          GetSet(key, value, t2)
    \/ \E key \in CacheKeys : GetCall(key)

GetSpec == GetInit /\ [][GetNext]_vars

(***************************************************************************)
(* OpsSpec: the operations of one Cache under the clock: set with a ttl,   *)
(* get, cleanup, clear and getStats.  reqs holds the last operation: its   *)
(* name, its key, the time it read, the Map before and after it and what   *)
(* it returned; hist holds, for every stored key, the ttl given to the set *)
(* that stored it.                                                         *)
(***************************************************************************)
OpsTtls == {defaultTtlMs, 2 * defaultTtlMs}
OpsValues == {Str("v1")}

IdleOp ==
    [op |-> "none", key |-> None, at |-> 0, before |-> emptyMap,
     after |-> emptyMap, result |-> Undefined]

\* The record of an operation.
Op(name, key, after, result) ==
    [op |-> name, key |-> key, at |-> now, before |-> cache,
     after |-> after, result |-> result]

\* The ttls of the keys that are still stored.
ttlsOf(given, c) == [k \in DOMAIN c |-> given[k]]

OpsInit ==
    /\ now = 0
    /\ cache = emptyMap
    /\ calls = <<>>
    /\ hist = emptyMap
    /\ ncalls = 0
    /\ poll = IdlePoll
    /\ reqs = IdleOp

\* set(key, value, ttlMs)
OpsSet(key, value, ttlMs, t2) ==
    /\ cache' = set(cache, key, value, ttlMs, now, t2)
    /\ hist' = [k \in DOMAIN cache' |-> IF k = key THEN ttlMs ELSE hist[k]]
    /\ reqs' = Op("set", key, cache', Undefined)
    /\ UNCHANGED <<now, calls, ncalls, poll>>

\* get(key)
OpsGet(key) ==
    LET got == get(cache, key, now)
    IN  /\ cache' = got.cache
        /\ hist' = ttlsOf(hist, cache')
        /\ reqs' = Op("get", key, cache', got.value)
        /\ UNCHANGED <<now, calls, ncalls, poll>>

\* cleanup()
OpsCleanup ==
    /\ cache' = cleanup(cache, now)
    /\ hist' = ttlsOf(hist, cache')
    /\ reqs' = Op("cleanup", None, cache', Undefined)
    /\ UNCHANGED <<now, calls, ncalls, poll>>

\* clear()
OpsClear ==
    /\ cache' = clear(cache)
    /\ hist' = ttlsOf(hist, cache')
    /\ reqs' = Op("clear", None, cache', Undefined)
    /\ UNCHANGED <<now, calls, ncalls, poll>>

\* getStats()
OpsGetStats ==
    /\ reqs' = Op("getStats", None, cache, getStats(cache, now))
    /\ UNCHANGED <<now, cache, calls, hist, ncalls, poll>>

OpsNext ==
    \/ Tick
    \/ \E key \in CacheKeys, value \in OpsValues, ttlMs \in OpsTtls, t2 \in SecondReads :
          OpsSet(key, value, ttlMs, t2)
    \/ \E key \in CacheKeys : OpsGet(key)
    \/ OpsCleanup
    \/ OpsClear
    \/ OpsGetStats

OpsSpec == OpsInit /\ [][OpsNext]_vars

(***************************************************************************)
(* beef.js: POST /api/beef, and the GrokClient methods it calls.  The file *)
(* holds the handler in two versions: "v1" classifies the tweet, then      *)
(* generates the storyline and then the video; "v2" generates the          *)
(* storyline and then the video and the thumbnail side by side.            *)
(***************************************************************************)
\* Property names, as code units.
name_tweet_text == <<116, 119, 101, 101, 116, 95, 116, 101, 120, 116>>
name_author == <<97, 117, 116, 104, 111, 114>>
name_classification ==
    <<99, 108, 97, 115, 115, 105, 102, 105, 99, 97, 116, 105, 111, 110>>
name_context == <<99, 111, 110, 116, 101, 120, 116>>
name_prompt == <<112, 114, 111, 109, 112, 116>>
name_scenePrompt == <<115, 99, 101, 110, 101, 80, 114, 111, 109, 112, 116>>
name_thumbnailPrompt ==
    <<116, 104, 117, 109, 98, 110, 97, 105, 108, 80, 114, 111, 109, 112, 116>>
name_threadContext ==
    <<116, 104, 114, 101, 97, 100, 67, 111, 110, 116, 101, 120, 116>>
name_userBio == <<117, 115, 101, 114, 66, 105, 111>>
name_userFollowers ==
    <<117, 115, 101, 114, 70, 111, 108, 108, 111, 119, 101, 114, 115>>
name_replyingTo == <<114, 101, 112, 108, 121, 105, 110, 103, 84, 111>>

\* String literals of the handlers and of generateStoryline, as code units.
text_slop == <<115, 108, 111, 112>>
text_no_slop == <<110, 111, 95, 115, 108, 111, 112>>
text_undefined == <<117, 110, 100, 101, 102, 105, 110, 101, 100>>
text_posterSuffix ==
    <<44, 32, 100, 114, 97, 109, 97, 116, 105, 99, 32, 109, 111, 118, 105,
      101, 32, 112, 111, 115, 116, 101, 114, 32, 115, 116, 121, 108, 101>>
text_ElonMusk == <<69, 108, 111, 110, 32, 77, 117, 115, 107>>
text_SpongeBob ==
    <<83, 112, 111, 110, 103, 101, 66, 111, 98, 32, 83, 113, 117, 97, 114,
      101, 80, 97, 110, 116, 115>>
text_PeterGriffin ==
    <<80, 101, 116, 101, 114, 32, 71, 114, 105, 102, 102, 105, 110>>
text_PatrickStar == <<80, 97, 116, 114, 105, 99, 107, 32, 83, 116, 97, 114>>
text_EricCartman == <<69, 114, 105, 99, 32, 67, 97, 114, 116, 109, 97, 110>>
text_HomerSimpson ==
    <<72, 111, 109, 101, 114, 32, 83, 105, 109, 112, 115, 111, 110>>
text_anchorPrompt ==
    <<69, 108, 111, 110, 32, 77, 117, 115, 107, 32, 97, 115, 32, 110, 101,
      119, 115, 32, 97, 110, 99, 104, 111, 114, 32, 97, 116, 32, 112, 114,
      111, 102, 101, 115, 115, 105, 111, 110, 97, 108, 32, 100, 101, 115,
      107, 44, 32, 115, 112, 101, 97, 107, 105, 110, 103, 32, 116, 111, 32,
      99, 97, 109, 101, 114, 97>>
text_trashPromptSuffix ==
    <<32, 104, 111, 108, 100, 105, 110, 103, 32, 112, 97, 112, 101, 114, 44,
      32, 100, 105, 115, 103, 117, 115, 116, 101, 100, 44, 32, 116, 104, 114,
      111, 119, 115, 32, 105, 110, 32, 116, 114, 97, 115, 104, 32, 98, 105,
      110>>
text_trashSceneSuffix ==
    <<32, 116, 104, 114, 111, 119, 105, 110, 103, 32, 112, 97, 112, 101, 114,
      32, 105, 110, 32, 103, 97, 114, 98, 97, 103, 101>>
text_anchorScene ==
    <<69, 108, 111, 110, 32, 77, 117, 115, 107, 32, 97, 116, 32, 110, 101,
      119, 115, 32, 100, 101, 115, 107, 32, 115, 112, 101, 97, 107, 105, 110,
      103>>
text_breakingNews ==
    <<66, 114, 101, 97, 107, 105, 110, 103, 32, 110, 101, 119, 115, 46, 32,
      84, 104, 105, 115, 32, 105, 115, 32, 105, 110, 116, 101, 114, 101, 115,
      116, 105, 110, 103, 46, 32, 69, 109, 97, 105, 108, 105, 110, 103, 32,
      116, 104, 101, 32, 116, 101, 97, 109, 32, 110, 111, 119, 46>>
text_garbage ==
    <<84, 104, 105, 115, 32, 111, 112, 105, 110, 105, 111, 110, 32, 105, 115,
      32, 97, 98, 115, 111, 108, 117, 116, 101, 32, 103, 97, 114, 98, 97,
      103, 101, 46, 32, 83, 116, 114, 97, 105, 103, 104, 116, 32, 116, 111,
      32, 116, 104, 101, 32, 116, 114, 97, 115, 104, 46>>

\* const CACHE_TTL = { STORYLINE, VIDEO, THUMBNAIL }
CACHE_TTL_STORYLINE == 10 * 60 * 1000
CACHE_TTL_VIDEO == 30 * 60 * 1000
CACHE_TTL_THUMBNAIL == 30 * 60 * 1000

\* const TARGET_DURATION
TARGET_DURATION(route) == IF route = "v1" THEN 7 ELSE 15

\* obj.name: undefined when the object has no such property.
getField(obj, name) == IF name \in DOMAIN obj THEN obj[name] ELSE Undefined

\* a || b
orElse(a, b) == IF truthy(a) THEN a ELSE b

\* `${x}` for a string or undefined
templateText(x) == IF x.type = "string" THEN x.codes ELSE text_undefined

Array(items) == [type |-> "array", items |-> items]

\* const characters = [...]
characters ==
    <<text_SpongeBob, text_PeterGriffin, text_PatrickStar, text_EricCartman,
      text_HomerSimpson>>

\* What the chat completion request of classifyTweet brings back: fetch
\* rejects, a non-OK status with its body, or the content of the first choice.
ClassifyReply(http, body, content) ==
    [http |-> http, body |-> body, content |-> content]

\* The texts of the first choice: no_slop, slop and spam, as they are, in
\* capitals, and with blanks, a tab or line ends around or inside them.
ClassifyContents ==
    {Chars(text_no_slop),
     Chars(<<32, 78, 111, 95, 83, 108, 111, 112, 10>>),
     Chars(<<78, 79, 95, 83, 76, 79, 80>>),
     Chars(<<9>> \o text_no_slop \o <<13, 10>>),
     Chars(text_no_slop \o <<46>>),
     Chars(<<110, 111, 32, 115, 108, 111, 112>>),
     Chars(text_slop),
     Chars(<<32, 83, 76, 79, 80, 32>>),
     Chars(<<115, 112, 97, 109>>),
     Chars(<<>>),
     Undefined}

ClassifyReplies ==
    {ClassifyReply("throw", "none", Undefined),
     ClassifyReply("500", "overloaded", Undefined),
     ClassifyReply("ok", "null", Undefined)}
    \cup {ClassifyReply("ok", "json", content) : content \in ClassifyContents}

\* String.prototype.toLowerCase, for the letters A to Z
toLowerCase(codes) ==
    [i \in 1..Len(codes) |->
        IF codes[i] >= 65 /\ codes[i] <= 90 THEN codes[i] + 32 ELSE codes[i]]

\* The white space and line terminators String.prototype.trim removes,
\* those below U+0100.
WhiteSpace == {9, 10, 11, 12, 13, 32, 160}

RECURSIVE trimStart(_)
trimStart(codes) ==
    IF codes # <<>> /\ codes[1] \in WhiteSpace THEN trimStart(Tail(codes)) ELSE codes

RECURSIVE trimEnd(_)
trimEnd(codes) ==
    IF codes # <<>> /\ codes[Len(codes)] \in WhiteSpace
    THEN trimEnd(SubSeq(codes, 1, Len(codes) - 1))
    ELSE codes

\* A trim that leaves the end of the string as it is.
trimStartOnly(codes) == trimStart(codes)

\* String.prototype.trim
trim(codes) == trimEnd(trimStart(codes))

\* content?.toLowerCase().trim()
lowerTrim(content) ==
    IF content.type = "string" THEN Chars(trim(toLowerCase(content.codes)))
    ELSE Undefined

\* classifyTweet(tweetText): what the call ends with.
classifyTweet(reply) ==
    IF reply.http = "throw"
    THEN [kind |-> "throw", type |-> "", message |-> <<"fetch failed">>]
    ELSE IF reply.http # "ok"
    THEN [kind |-> "throw", type |-> "",
          message |-> <<"Tweet classification failed: ", reply.body>>]
    ELSE IF reply.body = "null"
    THEN [kind |-> "throw", type |-> "",
          message |-> <<"Cannot read properties of null (reading 'choices')">>]
    ELSE [kind |-> "return",
          type |-> IF lowerTrim(reply.content) = Chars(text_no_slop)
                   THEN "no_slop" ELSE "slop",
          message |-> <<>>]

\* A classification that falls to 'no_slop' when classifyTweet raises.
classificationAfterOrNoSlop(outcome) ==
    IF outcome.kind = "return" THEN outcome.type ELSE "no_slop"

\* The handler's try/catch around classifyTweet: the type returned, 'slop'
\* when the call raised.
classificationAfter(outcome) ==
    IF outcome.kind = "return" THEN outcome.type ELSE "slop"

classificationText(classification) ==
    Chars(IF classification = "no_slop" THEN text_no_slop ELSE text_slop)

\* What the chat completion request of generateStoryline brings back.  body
\* is "json" or "null" (the JSON text null); content is the text of the first
\* choice: match tells whether /\{[\s\S]*\}/ finds a brace pair in it, parses
\* whether JSON.parse accepts the match, parsed is the object it yields.
StorylineReply(http, body, content, match, parses, parsed) ==
    [http |-> http, body |-> body, content |-> content, match |-> match,
     parses |-> parses, parsed |-> parsed]

NoObject == [type |-> "object"]

StorylineReplies ==
    {StorylineReply("throw", "none", Undefined, FALSE, FALSE, NoObject),
     StorylineReply("500", "overloaded", Undefined, FALSE, FALSE, NoObject),
     StorylineReply("ok", "null", Undefined, FALSE, FALSE, NoObject),
     StorylineReply("ok", "json", Chars(<<123, 46, 46, 46, 125>>), TRUE, TRUE,
        [type |-> "object", title |-> Str("Hot Take"),
         storyline |-> Chars(<<115, 49>>), narrator |-> Chars(text_HomerSimpson),
         videoPrompt |-> Chars(<<112, 49>>),
         scenes |-> Array(<<Chars(<<112, 49>>)>>)]),
     StorylineReply("ok", "json", Chars(<<123, 46, 46, 125>>), TRUE, TRUE,
        [type |-> "object", storyline |-> Chars(<<115, 49>>)]),
     StorylineReply("ok", "json", Chars(<<123, 125>>), TRUE, TRUE, NoObject),
     StorylineReply("ok", "json", Chars(<<123, 111, 111, 112, 115, 125>>),
        TRUE, FALSE, NoObject)}

\* The fallback storylines at the end of generateStoryline.
fallbackStoryline(classification, content, narratorName) ==
    IF classification = "no_slop"
    THEN [type |-> "object", title |-> Str("Breaking Tech News"),
          storyline |-> orElse(content, Chars(text_breakingNews)),
          narrator |-> Chars(text_ElonMusk),
          videoPrompt |-> Chars(text_anchorPrompt),
          scenes |-> Array(<<Chars(text_anchorScene)>>),
          classification |-> Chars(text_no_slop)]
    ELSE [type |-> "object", title |-> Str("Trash Opinion Alert"),
          storyline |-> orElse(content, Chars(text_garbage)),
          narrator |-> Chars(narratorName),
          videoPrompt |-> Chars(narratorName \o text_trashPromptSuffix),
          scenes |-> Array(<<Chars(narratorName \o text_trashSceneSuffix)>>),
          classification |-> Chars(text_slop)]

\* The parsed object after the scenes fix and with the classification added.
completeParsed(parsed, classification) ==
    [f \in (DOMAIN parsed) \cup {"scenes", "classification"} |->
        IF f = "classification" THEN classificationText(classification)
        ELSE IF f = "scenes"
        THEN IF getField(parsed, "scenes").type = "array"
             THEN parsed.scenes
             ELSE Array(<<getField(parsed, "videoPrompt")>>)
        ELSE parsed[f]]

\* A generateStoryline whose JSON.parse is outside the try block.
generateStorylineUnguarded(classification, reply, character) ==
    LET narratorName == IF classification = "no_slop" THEN text_ElonMusk
                        ELSE characters[character]
        content == orElse(reply.content, Chars(<<>>))
    IN  IF reply.http = "throw"
        THEN [kind |-> "throw", value |-> NoObject, message |-> <<"fetch failed">>]
        ELSE IF reply.http # "ok"
        THEN [kind |-> "throw", value |-> NoObject,
              message |-> <<"Storyline generation failed: ", reply.body>>]
        ELSE IF reply.body = "null"
        THEN [kind |-> "throw", value |-> NoObject,
              message |-> <<"Cannot read properties of null (reading 'choices')">>]
        ELSE IF reply.match /\ ~reply.parses
        THEN [kind |-> "throw", value |-> NoObject,
              message |-> <<"Unexpected token in JSON">>]
        ELSE IF reply.match /\ reply.parses
        THEN [kind |-> "return",
              value |-> completeParsed(reply.parsed, classification),
              message |-> <<>>]
        ELSE [kind |-> "return",
              value |-> fallbackStoryline(classification, content, narratorName),
              message |-> <<>>]

\* generateStoryline(tweetText, author, context, classification): what the
\* call ends with.  character is Math.floor(Math.random() * 5) + 1.
generateStoryline(classification, reply, character) ==
    LET narratorName == IF classification = "no_slop" THEN text_ElonMusk
                        ELSE characters[character]
        content == orElse(reply.content, Chars(<<>>))
    IN  IF reply.http = "throw"
        THEN [kind |-> "throw", value |-> NoObject, message |-> <<"fetch failed">>]
        ELSE IF reply.http # "ok"
        THEN [kind |-> "throw", value |-> NoObject,
              message |-> <<"Storyline generation failed: ", reply.body>>]
        ELSE IF reply.body = "null"
        THEN [kind |-> "throw", value |-> NoObject,
              message |-> <<"Cannot read properties of null (reading 'choices')">>]
        ELSE IF reply.match /\ reply.parses
        THEN [kind |-> "return",
              value |-> completeParsed(reply.parsed, classification),
              message |-> <<>>]
        ELSE [kind |-> "return",
              value |-> fallbackStoryline(classification, content, narratorName),
              message |-> <<>>]

\* What the video API does for one generateVideo call: the submission is
\* rejected by fetch, refused with a non-OK status, or accepted, and then
\* pollVideoStatus ends in a URL, in a failure or in the timeout.
VideoWorlds ==
    {[submit |-> "throw", poll |-> "none"],
     [submit |-> "500", poll |-> "none"],
     [submit |-> "ok", poll |-> "completed"],
     [submit |-> "ok", poll |-> "failed"],
     [submit |-> "ok", poll |-> "timeout"]}

\* generateVideo(prompt, targetDuration, context): what the call ends with.
generateVideo(prompt, targetDuration, w) ==
    IF prompt.type # "string"
    THEN [kind |-> "throw", value |-> NoObject,
          message |-> <<"Cannot read properties of undefined (reading 'substring')">>]
    ELSE IF w.submit = "throw"
    THEN [kind |-> "throw", value |-> NoObject, message |-> <<"fetch failed">>]
    ELSE IF w.submit # "ok"
    THEN [kind |-> "throw", value |-> NoObject,
          message |-> <<FailedPhrase, ": ", "overloaded">>]
    ELSE IF w.poll = "completed"
    THEN [kind |-> "return",
          value |-> [type |-> "object",
                     videoUrl |-> Str("https://vidgen.x.ai/nested.mp4"),
                     duration |-> targetDuration],
          message |-> <<>>]
    ELSE IF w.poll = "failed"
    THEN [kind |-> "throw", value |-> NoObject,
          message |-> <<FailedPhrase, ": ", "policy violation">>]
    ELSE [kind |-> "throw", value |-> NoObject, message |-> TimeoutMessage]

\* What generateThumbnail meets: "missing" is a GrokClient without the
\* method (the one of services/grok.js), the others are the image API's
\* answers to the GrokClient that has it.
ThumbnailWorlds == {"missing", "throw", "500", "url", "empty"}

\* A generateThumbnail without its try/catch and without the fallback of a
\* response that is not OK.
generateThumbnailRaising(w) ==
    IF w = "missing"
    THEN [kind |-> "throw", value |-> NoObject,
          message |-> <<"getGrok(...).generateThumbnail is not a function">>]
    ELSE IF w \in {"throw", "500"}
    THEN [kind |-> "throw", value |-> NoObject, message |-> <<"fetch failed">>]
    ELSE [kind |-> "return",
          value |-> [type |-> "object",
                     thumbnailUrl |-> IF w = "url"
                                      THEN Str("https://imgen.x.ai/thumb.png")
                                      ELSE Undefined],
          message |-> <<>>]

\* getGrok().generateThumbnail(thumbnailPrompt): what the call ends with.
generateThumbnail(w) ==
    IF w = "missing"
    THEN [kind |-> "throw", value |-> NoObject,
          message |-> <<"getGrok(...).generateThumbnail is not a function">>]
    ELSE IF w \in {"throw", "500"}
    THEN [kind |-> "return",
          value |-> [type |-> "object", thumbnailUrl |-> Null, isDemo |-> TRUE],
          message |-> <<>>]
    ELSE [kind |-> "return",
          value |-> [type |-> "object",
                     thumbnailUrl |-> IF w = "url"
                                      THEN Str("https://imgen.x.ai/thumb.png")
                                      ELSE Undefined],
          message |-> <<>>]

\* getGrok().generateCohesiveVideo(videoPrompt, thumbnailPrompt): no
\* GrokClient of the repository has the method ("missing"); one that had it
\* would resolve with a video and its thumbnail, or raise.
CohesiveWorlds == {"missing", "ok", "raise"}

generateCohesiveVideo(w) ==
    IF w = "missing"
    THEN [kind |-> "throw", value |-> NoObject,
          message |-> <<"getGrok(...).generateCohesiveVideo is not a function">>]
    ELSE IF w = "raise"
    THEN [kind |-> "throw", value |-> NoObject,
          message |-> <<FailedPhrase, ": ", "policy violation">>]
    ELSE [kind |-> "return",
          value |-> [type |-> "object",
                     videoUrl |-> Str("https://vidgen.x.ai/nested.mp4"),
                     thumbnailUrl |-> Str("https://imgen.x.ai/thumb.png")],
          message |-> <<>>]

(***************************************************************************)
(* The state of a request.  Each getOrCompute of the handler is a branch:  *)
(* "computing" while its computeFn is in flight, then "fulfilled" with     *)
(* the value or "rejected" with the reason; from tells a hit from a        *)
(* computed value.  log lists the GrokClient calls of the request as they  *)
(* begin ("+") and end ("-"); added holds the keys whose cache entry a     *)
(* step of the request has created or replaced.                            *)
(***************************************************************************)
Requests == {"r1"}      \* the requests in flight at a time
MaxRequests == 2        \* requests per behaviour of Spec
RouteTickStep == 700000 \* the clock of Spec advances in steps of this size
MaxRouteNow == 700000   \* the clock of Spec stops here

NoBranch ==
    [state |-> "none", from |-> "none", key |-> <<>>, value |-> <<>>,
     reason |-> <<>>, deadline |-> -1]

IdleReq ==
    [pc |-> "idle", body |-> <<>>, cleared |-> FALSE, classified |-> "none",
     classification |-> "slop", story |-> NoBranch, video |-> NoBranch,
     thumb |-> NoBranch, cohesive |-> NoBranch, log |-> <<>>, added |-> {},
     response |-> <<>>]

\* req.body
Body(tweet_text, author, thread_context, use_cohesive_video) ==
    [tweet_text |-> tweet_text, author |-> author, handle |-> Undefined,
     thread_context |-> thread_context, user_bio |-> Undefined,
     user_followers |-> Undefined, replying_to |-> Undefined,
     use_cohesive_video |-> use_cohesive_video]

Bodies ==
    {Body(Undefined, Chars(<<97, 108>>), Undefined, FALSE),
     Body(Chars(<<103, 109>>), Undefined, Undefined, FALSE),
     Body(Chars(<<103, 109>>), Chars(<<97, 108>>), Undefined, FALSE),
     Body(Chars(<<103, 109>>), Chars(<<97, 108>>), Undefined, TRUE)}

\* const context = { threadContext, userBio, userFollowers, replyingTo }
contextOf(body) ==
    Object(<< <<name_threadContext, body.thread_context>>,
              <<name_userBio, body.user_bio>>,
              <<name_userFollowers, body.user_followers>>,
              <<name_replyingTo, body.replying_to>> >>)

\* The params of the storyline key: { tweet_text, author, classification }
\* in v1, { tweet_text, author, context } in v2.
storylineParams(route, body, classification) ==
    IF route = "v1"
    THEN Object(<< <<name_tweet_text, body.tweet_text>>,
                   <<name_author, body.author>>,
                   <<name_classification, classificationText(classification)>> >>)
    ELSE Object(<< <<name_tweet_text, body.tweet_text>>,
                   <<name_author, body.author>>,
                   <<name_context, contextOf(body)>> >>)

\* The cache key of the storyline step.
storylineKey(route, body, classification) ==
    generateKey("storyline", storylineParams(route, body, classification))

\* const videoPrompt = storyline.videoPrompt || storyline.storyline
videoPromptOf(storyline) ==
    orElse(getField(storyline, "videoPrompt"), getField(storyline, "storyline"))

\* const thumbnailPrompt = `${...}, dramatic movie poster style`
thumbnailPromptOf(storyline) ==
    Chars(templateText(videoPromptOf(storyline)) \o text_posterSuffix)

\* The cache key of the video step.
videoKey(route, body, storyline) ==
    IF route = "v1"
    THEN generateKey("video",
            Object(<< <<name_prompt, videoPromptOf(storyline)>>,
                      <<name_author, orElse(body.author, body.handle)>> >>))
    ELSE generateKey("video", Object(<< <<name_prompt, videoPromptOf(storyline)>> >>))

thumbnailKey(storyline) ==
    generateKey("thumbnail", Object(<< <<name_prompt, thumbnailPromptOf(storyline)>> >>))

cohesiveKey(storyline) ==
    generateKey("cohesive_video",
        Object(<< <<name_scenePrompt, videoPromptOf(storyline)>>,
                  <<name_thumbnailPrompt, thumbnailPromptOf(storyline)>> >>))

\* getOrCompute(key, computeFn, ttlMs) up to `await computeFn()`: the branch
\* and the Map after the lookup.
startBranch(c, key, t) ==
    LET g == get(c, key, t)
    IN  [branch |->
            IF isHit(g.value)
            THEN [state |-> "fulfilled", from |-> "hit", key |-> key,
                  value |-> <<g.value>>, reason |-> <<>>,
                  deadline |-> c[key].expiresAt]
            ELSE [state |-> "computing", from |-> "computed", key |-> key,
                  value |-> <<>>, reason |-> <<>>, deadline |-> -1],
         cache |-> g.cache]

\* getOrCompute after the await: the value is stored and returned, or the
\* rejection of computeFn is passed on.  deadline is the expiresAt of the
\* entry the value was read from or stored in.
settleBranch(branch, outcome, ttlMs, t) ==
    IF outcome.kind = "return"
    THEN [branch EXCEPT !.state = "fulfilled", !.value = <<outcome.value>>,
                        !.deadline = t + ttlMs]
    ELSE [branch EXCEPT !.state = "rejected", !.reason = outcome.message]

settleCacheUnstored(c, branch, outcome, ttlMs, t) == c

\* A getOrCompute that stores no result marked isDemo.
settleCacheOfSuccess(c, branch, outcome, ttlMs, t) ==
    IF outcome.kind = "return" /\ "isDemo" \notin DOMAIN outcome.value
    THEN set(c, branch.key, outcome.value, ttlMs, t, t)
    ELSE c

settleCache(c, branch, outcome, ttlMs, t) ==
    IF outcome.kind = "return"
    THEN set(c, branch.key, outcome.value, ttlMs, t, t)
    ELSE c

\* A handler that goes on without waiting for the promise.
notAwaited(branch) == branch.state # "none"

\* `await promise`: the handler goes on once the promise has settled.
awaited(branch) == branch.state \in {"fulfilled", "rejected"}

\* What the handler holds after the await (a promise has none of the
\* properties the handler reads).
awaitedValue(branch) == IF branch.value # <<>> THEN branch.value[1] ELSE NoObject

\* Promise.all instead: the join is over at the first rejection.
allOrFirstRejection(videoBranch, thumbnailBranch) ==
    \/ awaited(videoBranch) /\ awaited(thumbnailBranch)
    \/ videoBranch.state = "rejected"
    \/ thumbnailBranch.state = "rejected"

\* await Promise.allSettled([video, thumbnail])
allSettled(videoBranch, thumbnailBranch) ==
    awaited(videoBranch) /\ awaited(thumbnailBranch)

\* A join that needs both results.
eitherMissing(videoBranch, thumbnailBranch) ==
    videoBranch.state # "fulfilled" \/ thumbnailBranch.state # "fulfilled"

\* `if (!video)`, video being the value of a fulfilled video branch or null
videoMissing(videoBranch, thumbnailBranch) == videoBranch.state # "fulfilled"

\* A catch block that hides the message.
genericErrorResponse(message) ==
    [status |-> 500, error |-> <<"Internal server error">>, video_url |-> Undefined,
     thumbnail_url |-> Undefined, classification |-> Undefined,
     cached |-> {}]

\* The catch block of the handler: res.status(500).json({ error: error.message })
errorResponse(message) ==
    [status |-> 500, error |-> message, video_url |-> Undefined,
     thumbnail_url |-> Undefined, classification |-> Undefined,
     cached |-> {}]

\* res.status(400).json({ error: 'tweet_text and author are required' })
validationResponse ==
    [status |-> 400, error |-> <<"tweet_text and author are required">>,
     video_url |-> Undefined, thumbnail_url |-> Undefined,
     classification |-> Undefined, cached |-> {}]

\* res.json({...}); cached names the steps whose key is in the cache.
successResponse(video_url, thumbnail_url, classification, cached) ==
    [status |-> 200, error |-> <<>>, video_url |-> video_url,
     thumbnail_url |-> thumbnail_url, classification |-> classification,
     cached |-> cached]

\* The keys whose entry a step has created or replaced.
written(newCache) ==
    {k \in DOMAIN newCache : k \notin DOMAIN cache \/ newCache[k] # cache[k]}

withAdded(q, newCache) == [q EXCEPT !.added = @ \cup written(newCache)]

(***************************************************************************)
(* Spec: the handler, step by step.  A step is what runs between two       *)
(* awaits.                                                                 *)
(***************************************************************************)
\* The storyline step up to its await: the key, the lookup and, on a miss,
\* the call of generateStoryline.
beginStoryline(q) ==
    LET key == storylineKey(reqs.route, q.body[1], q.classification)
        s == startBranch(cache, key, now)
    IN  [req |-> withAdded(
                    [q EXCEPT !.pc = "storyline", !.story = s.branch,
                              !.log = IF s.branch.state = "computing"
                                      THEN Append(@, "generateStoryline+")
                                      ELSE @],
                    s.cache),
         cache |-> s.cache]

\* What is remembered of the request answered last, when it was answered
\* with 200 and the request that arrives repeats its body: its
\* classification, its storyline and when the entries of its storyline and
\* of its video expire.
answeredBefore(q, body) ==
    IF q.pc = "done" /\ q.response[1].status = 200 /\ q.body[1] = body /\ ~q.cleared
    THEN <<[body |-> q.body[1], classification |-> q.classification,
            storyline |-> awaitedValue(q.story),
            storyDeadline |-> q.story.deadline,
            videoDeadline |-> IF q.cohesive.state # "none" THEN q.cohesive.deadline
                              ELSE q.video.deadline]>>
    ELSE <<>>

\* A validation that looks at tweet_text alone.
missingText(body) == ~truthy(body.tweet_text)

\* if (!tweet_text || !author)
missingField(body) == ~truthy(body.tweet_text) \/ ~truthy(body.author)

\* router.post('/'): a request arrives (the one before it, if any, has been
\* answered); validation, and the handler up to its first await
\* (classifyTweet in v1, the storyline step in v2).
Receive(r, body) ==
    /\ reqs.of[r].pc \in {"idle", "done"}
    /\ reqs.started < MaxRequests
    /\ LET q == [IdleReq EXCEPT !.body = <<body>>]
           s == beginStoryline(q)
       IN  IF missingField(body)
           THEN /\ reqs' = [reqs EXCEPT !.started = @ + 1,
                               !.prev = answeredBefore(reqs.of[r], body),
                               !.of[r] = [q EXCEPT !.pc = "done",
                                                   !.response = <<validationResponse>>]]
                /\ cache' = cache
           ELSE IF reqs.route = "v1"
           THEN /\ reqs' = [reqs EXCEPT !.started = @ + 1,
                               !.prev = answeredBefore(reqs.of[r], body),
                               !.of[r] = [q EXCEPT !.pc = "classify",
                                                   !.log = <<"classifyTweet+">>]]
                /\ cache' = cache
           ELSE /\ reqs' = [reqs EXCEPT !.started = @ + 1,
                               !.prev = answeredBefore(reqs.of[r], body),
                               !.of[r] = s.req]
                /\ cache' = s.cache
    /\ UNCHANGED <<now, calls, hist, ncalls, poll>>

\* v1: classifyTweet has settled; the try/catch, and the handler up to the
\* await of the storyline step.
ClassifySettle(r, reply) ==
    /\ reqs.of[r].pc = "classify"
    /\ LET outcome == classifyTweet(reply)
           q == [reqs.of[r] EXCEPT
                    !.classified = IF outcome.kind = "return" THEN "returned"
                                   ELSE "raised",
                    !.classification = classificationAfter(outcome),
                    !.log = Append(@, "classifyTweet-")]
           s == beginStoryline(q)
       IN  /\ reqs' = [reqs EXCEPT !.of[r] = s.req]
           /\ cache' = s.cache
    /\ UNCHANGED <<now, calls, hist, ncalls, poll>>

\* generateStoryline has settled: the rest of getOrCompute.
StorylineSettle(r, reply, character) ==
    /\ reqs.of[r].pc = "storyline"
    /\ reqs.of[r].story.state = "computing"
    /\ LET q == reqs.of[r]
           outcome == generateStoryline(q.classification, reply, character)
           newCache == settleCache(cache, q.story, outcome, CACHE_TTL_STORYLINE, now)
       IN  /\ cache' = newCache
           /\ reqs' = [reqs EXCEPT !.of[r] =
                         withAdded([q EXCEPT !.story = settleBranch(@, outcome, CACHE_TTL_STORYLINE, now),
                                             !.log = Append(@, "generateStoryline-")],
                                   newCache)]
    /\ UNCHANGED <<now, calls, hist, ncalls, poll>>

\* The media steps up to their await: the prompts, the keys, the lookups
\* and, on a miss, the calls of the generators.
beginMedia(q) ==
    LET storyline == awaitedValue(q.story)
        body == q.body[1]
        v == startBranch(cache, videoKey(reqs.route, body, storyline), now)
        t == startBranch(v.cache, thumbnailKey(storyline), now)
        c == startBranch(cache, cohesiveKey(storyline), now)
        called(branch, name) ==
            IF branch.state = "computing" THEN <<name>> ELSE <<>>
    IN  IF reqs.route = "v1"
        THEN [req |-> [q EXCEPT !.pc = "media", !.video = v.branch,
                                !.log = @ \o called(v.branch, "generateVideo+")],
              cache |-> v.cache]
        ELSE IF body.use_cohesive_video
        THEN [req |-> [q EXCEPT !.pc = "media", !.cohesive = c.branch,
                                !.log = @ \o called(c.branch, "generateCohesiveVideo+")],
              cache |-> c.cache]
        ELSE [req |-> [q EXCEPT !.pc = "media", !.video = v.branch,
                                !.thumb = t.branch,
                                !.log = @ \o called(v.branch, "generateVideo+")
                                          \o called(t.branch, "generateThumbnail+")],
              cache |-> t.cache]

\* A handler without the outer try/catch: the rejection of the storyline
\* step leaves the handler, and nothing answers the request.
AfterStorylineUncaught(r) ==
    /\ reqs.of[r].pc = "storyline"
    /\ awaited(reqs.of[r].story)
    /\ LET q == reqs.of[r]
           m == beginMedia(q)
       IN  IF q.story.state = "rejected"
           THEN /\ reqs' = [reqs EXCEPT !.of[r] = [q EXCEPT !.pc = "thrown"]]
                /\ cache' = cache
           ELSE /\ reqs' = [reqs EXCEPT !.of[r] = withAdded(m.req, m.cache)]
                /\ cache' = m.cache
    /\ UNCHANGED <<now, calls, hist, ncalls, poll>>

\* The await of the storyline step is over: a rejection goes to the catch
\* block, a storyline to the media steps.
AfterStoryline(r) ==
    /\ reqs.of[r].pc = "storyline"
    /\ awaited(reqs.of[r].story)
    /\ LET q == reqs.of[r]
           m == beginMedia(q)
       IN  IF q.story.state = "rejected"
           THEN /\ reqs' = [reqs EXCEPT !.of[r] =
                              [q EXCEPT !.pc = "done",
                                        !.response = <<errorResponse(q.story.reason)>>]]
                /\ cache' = cache
           ELSE /\ reqs' = [reqs EXCEPT !.of[r] = withAdded(m.req, m.cache)]
                /\ cache' = m.cache
    /\ UNCHANGED <<now, calls, hist, ncalls, poll>>

\* generateVideo has settled: the rest of getOrCompute.
VideoSettle(r, w) ==
    /\ reqs.of[r].pc = "media"
    /\ reqs.of[r].video.state = "computing"
    /\ LET q == reqs.of[r]
           outcome == generateVideo(videoPromptOf(awaitedValue(q.story)),
                                    TARGET_DURATION(reqs.route), w)
           newCache == settleCache(cache, q.video, outcome, CACHE_TTL_VIDEO, now)
       IN  /\ cache' = newCache
           /\ reqs' = [reqs EXCEPT !.of[r] =
                         withAdded([q EXCEPT !.video = settleBranch(@, outcome, CACHE_TTL_VIDEO, now),
                                             !.log = Append(@, "generateVideo-")],
                                   newCache)]
    /\ UNCHANGED <<now, calls, hist, ncalls, poll>>

\* v2: generateThumbnail has settled: the rest of getOrCompute.
ThumbnailSettle(r, w) ==
    /\ reqs.of[r].pc = "media"
    /\ reqs.of[r].thumb.state = "computing"
    /\ LET q == reqs.of[r]
           outcome == generateThumbnail(w)
           newCache == settleCache(cache, q.thumb, outcome, CACHE_TTL_THUMBNAIL, now)
       IN  /\ cache' = newCache
           /\ reqs' = [reqs EXCEPT !.of[r] =
                         withAdded([q EXCEPT !.thumb = settleBranch(@, outcome, CACHE_TTL_THUMBNAIL, now),
                                             !.log = Append(@, "generateThumbnail-")],
                                   newCache)]
    /\ UNCHANGED <<now, calls, hist, ncalls, poll>>

\* v2, use_cohesive_video: generateCohesiveVideo has settled.
CohesiveSettle(r, w) ==
    /\ reqs.of[r].pc = "media"
    /\ reqs.of[r].cohesive.state = "computing"
    /\ LET q == reqs.of[r]
           outcome == generateCohesiveVideo(w)
           newCache == settleCache(cache, q.cohesive, outcome, CACHE_TTL_VIDEO, now)
       IN  /\ cache' = newCache
           /\ reqs' = [reqs EXCEPT !.of[r] =
                         withAdded([q EXCEPT !.cohesive = settleBranch(@, outcome, CACHE_TTL_VIDEO, now),
                                             !.log = Append(@, "generateCohesiveVideo-")],
                                   newCache)]
    /\ UNCHANGED <<now, calls, hist, ncalls, poll>>

\* The `cached` flags of the success response: globalCache.get on each key,
\* one after the other; the names of the keys found, and the Map afterwards.
RECURSIVE cachedFlags(_, _, _)
cachedFlags(c, lookups, t) ==
    IF lookups = <<>> THEN [found |-> {}, cache |-> c]
    ELSE LET g == get(c, lookups[1][2], t)
             rest == cachedFlags(g.cache, Tail(lookups), t)
         IN  [found |-> (IF isHit(g.value) THEN {lookups[1][1]} ELSE {}) \cup rest.found,
              cache |-> rest.cache]

\* The end of the handler once its media steps are over: the response, and
\* the Map after the lookups of the success response (v2 builds the video
\* and thumbnail keys again there, from the same prompts).
respond(q) ==
    LET storyline == awaitedValue(q.story)
        video == awaitedValue(q.video)
        cohesiveResult == awaitedValue(q.cohesive)
        thumbnail == IF q.thumb.state = "fulfilled" THEN awaitedValue(q.thumb)
                     ELSE NoObject
        keyOfVideo == IF q.video.state # "none" THEN q.video.key
                      ELSE videoKey(reqs.route, q.body[1], storyline)
        keyOfThumbnail == IF q.thumb.state # "none" THEN q.thumb.key
                          ELSE thumbnailKey(storyline)
        flagsV1 == cachedFlags(cache, << <<"storyline", q.story.key>>,
                                         <<"video", keyOfVideo>> >>, now)
        flagsV2 == cachedFlags(cache, << <<"storyline", q.story.key>>,
                                         <<"video", keyOfVideo>>,
                                         <<"thumbnail", keyOfThumbnail>> >>, now)
    IN  IF reqs.route = "v1"
        THEN IF q.video.state = "rejected"
             THEN [response |-> errorResponse(q.video.reason), cache |-> cache]
             ELSE [response |->
                      successResponse(
                          getField(video, "videoUrl"), Undefined,
                          orElse(getField(storyline, "classification"),
                                 classificationText(q.classification)),
                          flagsV1.found),
                   cache |-> flagsV1.cache]
        ELSE IF q.body[1].use_cohesive_video
        THEN IF q.cohesive.state = "rejected"
             THEN [response |-> errorResponse(q.cohesive.reason), cache |-> cache]
             ELSE [response |->
                      successResponse(
                          getField(cohesiveResult, "videoUrl"),
                          orElse(getField(cohesiveResult, "thumbnailUrl"), Null),
                          Undefined, flagsV2.found),
                   cache |-> flagsV2.cache]
        ELSE IF videoMissing(q.video, q.thumb)
        THEN [response |->
                 errorResponse(<<FailedPhrase, ": ">>
                               \o (IF q.video.reason # <<>> THEN q.video.reason
                                   ELSE <<"Unknown error">>)),
              cache |-> cache]
        ELSE [response |->
                 successResponse(
                     getField(video, "videoUrl"),
                     orElse(getField(thumbnail, "thumbnailUrl"), Null),
                     Undefined, flagsV2.found),
              cache |-> flagsV2.cache]

\* The awaits of the media steps are over (in v2, Promise.allSettled has
\* resolved): the handler responds.
Respond(r) ==
    /\ reqs.of[r].pc = "media"
    /\ LET q == reqs.of[r]
       IN  /\ IF reqs.route = "v1" THEN awaited(q.video)
              ELSE IF q.body[1].use_cohesive_video THEN awaited(q.cohesive)
              ELSE allSettled(q.video, q.thumb)
           /\ LET end == respond(q)
              IN  /\ cache' = end.cache
                  /\ reqs' = [reqs EXCEPT !.of[r] =
                                [q EXCEPT !.pc = "done",
                                          !.response = <<end.response>>]]
    /\ UNCHANGED <<now, calls, hist, ncalls, poll>>

\* The entries a request has read or stored are gone.
entriesGone(q) ==
    [q EXCEPT !.cleared = @ \/ \E branch \in {q.story, q.video, q.thumb, q.cohesive} :
                                  branch.deadline # -1]

\* router.post('/cache/clear')
ClearCache ==
    /\ cache # emptyMap
    /\ cache' = clear(cache)
    /\ reqs' = [reqs EXCEPT !.prev = <<>>,
                            !.of = [r \in Requests |-> entriesGone(@[r])]]
    /\ UNCHANGED <<now, calls, hist, ncalls, poll>>

\* Time passes between two steps.
RouteTick ==
    /\ now + RouteTickStep <= MaxRouteNow
    /\ now' = now + RouteTickStep
    /\ UNCHANGED <<cache, calls, hist, ncalls, poll, reqs>>

\* The server has started, with one version of the handler or the other.
Init ==
    /\ now = 0
    /\ cache = emptyMap
    /\ calls = <<>>
    /\ hist = <<>>
    /\ ncalls = 0
    /\ poll = IdlePoll
    /\ reqs \in [route : {"v1", "v2"}, started : {0}, prev : {<<>>},
                 of : {[r \in Requests |-> IdleReq]}]

CharacterDraws == {1, Len(characters)}

Next ==
    \/ \E r \in Requests, body \in Bodies : Receive(r, body)
    \/ \E r \in Requests, reply \in ClassifyReplies : ClassifySettle(r, reply)
    \/ \E r \in Requests, reply \in StorylineReplies, character \in CharacterDraws :
          StorylineSettle(r, reply, character)
    \/ \E r \in Requests : AfterStoryline(r)
    \/ \E r \in Requests, w \in VideoWorlds : VideoSettle(r, w)
    \/ \E r \in Requests, w \in ThumbnailWorlds : ThumbnailSettle(r, w)
    \/ \E r \in Requests, w \in CohesiveWorlds : CohesiveSettle(r, w)
    \/ \E r \in Requests : Respond(r)
    \/ ClearCache
    \/ RouteTick

Spec == Init /\ [][Next]_vars

\* A step of the handler of request r that follows an await.
Continue(r) ==
    \/ \E reply \in ClassifyReplies : ClassifySettle(r, reply)
    \/ \E reply \in StorylineReplies, character \in CharacterDraws :
          StorylineSettle(r, reply, character)
    \/ AfterStoryline(r)
    \/ \E w \in VideoWorlds : VideoSettle(r, w)
    \/ \E w \in ThumbnailWorlds : ThumbnailSettle(r, w)
    \/ \E w \in CohesiveWorlds : CohesiveSettle(r, w)
    \/ Respond(r)

\* The steps in which the handler itself goes on: after classifyTweet, after
\* the await of the storyline step, after the awaits of the media steps.
Resume(r) ==
    \/ \E reply \in ClassifyReplies : ClassifySettle(r, reply)
    \/ AfterStoryline(r)
    \/ Respond(r)

\* The guards of ClassifySettle, AfterStoryline and Respond: what the
\* handler awaits has settled (classifyTweet, under FairSpec, settles).
CanResume(r) ==
    LET q == reqs.of[r]
    IN  \/ q.pc = "classify"
        \/ q.pc = "storyline" /\ awaited(q.story)
        \/ /\ q.pc = "media"
           /\ IF reqs.route = "v1" THEN awaited(q.video)
              ELSE IF q.body[1].use_cohesive_video THEN awaited(q.cohesive)
              ELSE allSettled(q.video, q.thumb)

MaxFairRequests == 1    \* requests per behaviour of FairSpec

FairNext ==
    \/ \E r \in Requests, body \in Bodies :
          reqs.started < MaxFairRequests /\ Receive(r, body)
    \/ \E r \in Requests : Continue(r)
    \/ ClearCache
    \/ RouteTick

\* Every remote call returns or fails (pollVideoStatus gives up after
\* maxAttempts), and the event loop runs the continuation of an await that
\* has settled: weak fairness of the steps that settle a call, and of
\* Resume(r), its ENABLED written as the guard CanResume(r).
FairSpec ==
    /\ Init
    /\ [][FairNext]_vars
    /\ \A r \in Requests :
          /\ WF_vars(\E reply \in StorylineReplies, character \in CharacterDraws :
                        StorylineSettle(r, reply, character))
          /\ WF_vars(\E w \in VideoWorlds : VideoSettle(r, w))
          /\ WF_vars(\E w \in ThumbnailWorlds : ThumbnailSettle(r, w))
          /\ WF_vars(\E w \in CohesiveWorlds : CohesiveSettle(r, w))
          /\ []<>(~CanResume(r)) \/ []<><<Resume(r)>>_vars

(***************************************************************************)
(* StorylineKeySpec: the storyline keys of two single-tweet requests, a    *)
(* and b, of the same handler.  reqs holds the two requests (the body and  *)
(* the classification the handler has for it at the storyline step) and,   *)
(* once built, their keys.                                                 *)
(***************************************************************************)
\* Bodies that differ in text, author, thread context and author bio.
KeyBodies ==
    {[Body(text, author, thread_context, FALSE) EXCEPT !.user_bio = user_bio] :
        text \in {Chars(<<103, 109>>), Chars(<<103, 110>>)},
        author \in {Chars(<<97, 108>>), Chars(<<98, 111>>)},
        thread_context \in {Undefined, Chars(<<116, 49>>)},
        user_bio \in {Undefined, Chars(<<98, 49>>)}}

\* The classification at the storyline step: that of classifyTweet or the
\* fallback in v1; v2 has none and generateStoryline takes its default.
ClassificationsOf(route) ==
    IF route = "v1" THEN {"slop", "no_slop"} ELSE {"slop"}

StorylineKeyInit ==
    /\ now = 0
    /\ cache = emptyMap
    /\ calls = <<>>
    /\ hist = <<>>
    /\ ncalls = 0
    /\ poll = IdlePoll
    /\ \E route \in {"v1", "v2"} :
          reqs \in [pc : {"received"}, route : {route},
                    a : [body : KeyBodies, classification : ClassificationsOf(route)],
                    b : [body : KeyBodies, classification : ClassificationsOf(route)],
                    keyA : {<<>>}, keyB : {<<>>}]

\* Both handlers have built their storyline key.
StorylineKeysBuilt ==
    /\ reqs.pc = "received"
    /\ reqs' = [reqs EXCEPT
                  !.pc = "keyed",
                  !.keyA = storylineKey(reqs.route, reqs.a.body, reqs.a.classification),
                  !.keyB = storylineKey(reqs.route, reqs.b.body, reqs.b.classification)]
    /\ UNCHANGED <<now, cache, calls, hist, ncalls, poll>>

StorylineKeyNext == StorylineKeysBuilt

StorylineKeySpec == StorylineKeyInit /\ [][StorylineKeyNext]_vars

(***************************************************************************)
(* KeySpec: two calls of Cache.generateKey, a and b.  reqs holds the       *)
(* arguments of the two calls and, once they have returned, their keys.    *)
(***************************************************************************)
MaxNumber == 2          \* the numbers among the values are 1..MaxNumber

\* The property names: a and b at the top; a nested object has a name of
\* the top, a, or one of its own, c.
ParamNames == {<<97>>, <<98>>}
NestedNames == {<<97>>, <<99>>}

\* The values of a property: null, a number, or an object of one property.
KeyValues ==
    {Null} \cup {Num(n) : n \in 1..MaxNumber}
           \cup {Object(<< <<name, Num(n)>> >>) : name \in NestedNames, n \in 1..MaxNumber}

\* The params objects: no name twice, in every insertion order.
KeyParams ==
    {Object(props) : props \in
        {p \in UNION {[1..n -> ParamNames \X KeyValues] : n \in 0..Cardinality(ParamNames)} :
            \A i, j \in DOMAIN p : p[i][1] = p[j][1] => i = j}}

KeyPrefixes == {"test1", "test2"}

KeyCalls == [prefix : KeyPrefixes, params : KeyParams]

KeyInit ==
    /\ now = 0
    /\ cache = emptyMap
    /\ calls = <<>>
    /\ hist = <<>>
    /\ ncalls = 0
    /\ poll = IdlePoll
    /\ reqs \in [pc : {"called"}, a : KeyCalls, b : KeyCalls,
                 keyA : {<<>>}, keyB : {<<>>}]

\* Both calls return.
KeyReturn ==
    /\ reqs.pc = "called"
    /\ reqs' = [reqs EXCEPT
                  !.pc = "keyed",
                  !.keyA = generateKey(reqs.a.prefix, reqs.a.params),
                  !.keyB = generateKey(reqs.b.prefix, reqs.b.params)]
    /\ UNCHANGED <<now, cache, calls, hist, ncalls, poll>>

KeyNext == KeyReturn

KeySpec == KeyInit /\ [][KeyNext]_vars

(***************************************************************************)
(* GrokSpec: one call of classifyTweet or of generateStoryline.  reqs      *)
(* holds the method, what the chat completion request brings back, the     *)
(* classification and the character drawn, and, once the call is over,     *)
(* what it ended with.                                                     *)
(***************************************************************************)
\* The replies of the handler model, and two whose scenes are no list of
\* scenes: an empty array and a string.
GrokStorylineReplies ==
    StorylineReplies \cup
    {StorylineReply("ok", "json", Chars(<<123, 91, 93, 125>>), TRUE, TRUE,
        [type |-> "object", storyline |-> Chars(<<115, 49>>),
         videoPrompt |-> Chars(<<112, 49>>), scenes |-> Array(<<>>)]),
     StorylineReply("ok", "json", Chars(<<123, 34, 34, 125>>), TRUE, TRUE,
        [type |-> "object", storyline |-> Chars(<<115, 49>>),
         videoPrompt |-> Chars(<<112, 49>>), scenes |-> Chars(<<112, 50>>)])}

GrokInit ==
    /\ now = 0
    /\ cache = emptyMap
    /\ calls = <<>>
    /\ hist = <<>>
    /\ ncalls = 0
    /\ poll = IdlePoll
    /\ \/ reqs \in [pc : {"called"}, method : {"classifyTweet"},
                    reply : ClassifyReplies, classification : {"slop"},
                    character : {1}, outcome : {<<>>}]
       \/ reqs \in [pc : {"called"}, method : {"generateStoryline"},
                    reply : GrokStorylineReplies,
                    classification : {"slop", "no_slop"},
                    character : 1..Len(characters), outcome : {<<>>}]

ClassifyReturn ==
    /\ reqs.pc = "called"
    /\ reqs.method = "classifyTweet"
    /\ reqs' = [reqs EXCEPT !.pc = "returned",
                            !.outcome = <<classifyTweet(reqs.reply)>>]
    /\ UNCHANGED <<now, cache, calls, hist, ncalls, poll>>

StorylineReturn ==
    /\ reqs.pc = "called"
    /\ reqs.method = "generateStoryline"
    /\ reqs' = [reqs EXCEPT !.pc = "returned",
                            !.outcome = <<generateStoryline(reqs.classification,
                                                            reqs.reply,
                                                            reqs.character)>>]
    /\ UNCHANGED <<now, cache, calls, hist, ncalls, poll>>

GrokNext == ClassifyReturn \/ StorylineReturn

GrokSpec == GrokInit /\ [][GrokNext]_vars

(***************************************************************************)
(* ExtractSpec: the JSON extraction of generateStoryline.  The text of the *)
(* model is a sequence of code units, put together from a few pieces: an   *)
(* opening and a closing brace, a member, a key, a comma and a word.       *)
(***************************************************************************)
MaxPieces == 5          \* pieces per text of ExtractSpec

\* { and }, "a":1 and "b": and , and the word ok followed by a blank
TextPieces ==
    {<<123>>, <<125>>, <<34, 97, 34, 58, 49>>, <<34, 98, 34, 58>>, <<44>>,
     <<111, 107, 32>>}

RECURSIVE flatten(_)
flatten(pieces) ==
    IF pieces = <<>> THEN <<>> ELSE Head(pieces) \o flatten(Tail(pieces))

PieceLists == UNION {[1..n -> TextPieces] : n \in 0..MaxPieces}

codeAt(text, i) == IF i >= 1 /\ i <= Len(text) THEN text[i] ELSE -1

\* content.match(/\{[\s\S]*\}/): from the first { to the last } after it;
\* <<>> when there is no match.
regexMatch(text) ==
    LET opens == {i \in 1..Len(text) : text[i] = 123}
        first == CHOOSE i \in opens : \A k \in opens : i <= k
        closes == {j \in 1..Len(text) : text[j] = 125 /\ j > first}
        last == CHOOSE j \in closes : \A k \in closes : j >= k
    IN  IF opens = {} \/ closes = {} THEN <<>> ELSE SubSeq(text, first, last)

\* JSON white space
RECURSIVE skipSpace(_, _)
skipSpace(text, i) ==
    IF codeAt(text, i) \in {9, 10, 13, 32} THEN skipSpace(text, i + 1) ELSE i

\* The closing quote of the string whose characters begin at i; 0 if none.
RECURSIVE stringEnd(_, _)
stringEnd(text, i) ==
    IF i > Len(text) THEN 0
    ELSE IF text[i] = 34 THEN i
    ELSE stringEnd(text, i + 1)

\* The property names of the parsed objects.
propertyName(codes) ==
    IF codes = <<97>> THEN "a" ELSE IF codes = <<98>> THEN "b" ELSE "other"

NoParse == [end |-> 0, value |-> Undefined]

\* JSON.parse, one value: a digit, a string without escapes or an object;
\* end is the position after the value, 0 for a SyntaxError.
RECURSIVE parseValueAt(_, _)
RECURSIVE parseMembersAt(_, _, _)
parseValueAt(text, i) ==
    LET c == codeAt(text, i)
        quote == stringEnd(text, i + 1)
        inside == skipSpace(text, i + 1)
    IN  IF c \in 48..57 /\ codeAt(text, i + 1) \notin 48..57
        THEN [end |-> i + 1, value |-> Num(c - 48)]
        ELSE IF c = 34 /\ quote # 0
        THEN [end |-> quote + 1, value |-> Chars(SubSeq(text, i + 1, quote - 1))]
        ELSE IF c = 123
        THEN IF codeAt(text, inside) = 125
             THEN [end |-> inside + 1, value |-> [type |-> "object"]]
             ELSE parseMembersAt(text, inside, [type |-> "object"])
        ELSE NoParse

\* The members of an object from position i on, obj holding those before.
parseMembersAt(text, i, obj) ==
    LET quote == stringEnd(text, i + 1)
        colon == skipSpace(text, quote + 1)
        v == parseValueAt(text, skipSpace(text, colon + 1))
        next == skipSpace(text, v.end)
        name == propertyName(SubSeq(text, i + 1, quote - 1))
        withMember == [f \in (DOMAIN obj) \cup {name} |->
                          IF f = name THEN v.value ELSE obj[f]]
    IN  IF codeAt(text, i) # 34 \/ quote = 0 THEN NoParse
        ELSE IF codeAt(text, colon) # 58 THEN NoParse
        ELSE IF v.end = 0 THEN NoParse
        ELSE IF codeAt(text, next) = 125
        THEN [end |-> next + 1, value |-> withMember]
        ELSE IF codeAt(text, next) = 44
        THEN parseMembersAt(text, skipSpace(text, next + 1), withMember)
        ELSE NoParse

\* JSON.parse(text): ok is FALSE for a SyntaxError.
JSONparse(text) ==
    LET v == parseValueAt(text, skipSpace(text, 1))
    IN  IF v.end # 0 /\ skipSpace(text, v.end) = Len(text) + 1
        THEN [ok |-> TRUE, value |-> v.value]
        ELSE [ok |-> FALSE, value |-> [type |-> "object"]]

\* The OK response whose first choice has the given text.
textReply(text) ==
    LET jsonMatch == regexMatch(text)
        parsed == JSONparse(jsonMatch)
    IN  StorylineReply("ok", "json", Chars(text), jsonMatch # <<>>,
                       jsonMatch # <<>> /\ parsed.ok, parsed.value)

ExtractInit ==
    /\ now = 0
    /\ cache = emptyMap
    /\ calls = <<>>
    /\ hist = <<>>
    /\ ncalls = 0
    /\ poll = IdlePoll
    /\ \E pieces \in PieceLists, classification \in {"slop", "no_slop"} :
          reqs = [pc |-> "called", text |-> flatten(pieces),
                  classification |-> classification, character |-> 1,
                  outcome |-> <<>>]

\* generateStoryline returns for the text.
ExtractReturn ==
    /\ reqs.pc = "called"
    /\ reqs' = [reqs EXCEPT !.pc = "returned",
                            !.outcome = <<generateStoryline(reqs.classification,
                                                            textReply(reqs.text),
                                                            reqs.character)>>]
    /\ UNCHANGED <<now, cache, calls, hist, ncalls, poll>>

ExtractNext == ExtractReturn

ExtractSpec == ExtractInit /\ [][ExtractNext]_vars

(***************************************************************************)
(* VideoPromptSpec: the prompt generateVideo sends for a request, from the *)
(* classification through the storyline step to the submission.           *)
(***************************************************************************)
\* The replies of GrokSpec, and one whose object names Elon Musk as its
\* narrator.
PromptReplies ==
    GrokStorylineReplies \cup
    {StorylineReply("ok", "json", Chars(<<123, 69, 77, 125>>), TRUE, TRUE,
        [type |-> "object", storyline |-> Chars(<<115, 49>>),
         narrator |-> Chars(text_ElonMusk), videoPrompt |-> Chars(<<112, 49>>)])}

\* const videoContext = { author, tweetText, narration, narrator } of the
\* first handler; the second passes no context, which is {}.
videoContextOf(route, body, storyline) ==
    IF route = "v1"
    THEN [author |-> orElse(body.author, body.handle),
          tweetText |-> body.tweet_text,
          narration |-> getField(storyline, "storyline"),
          narrator |-> getField(storyline, "narrator")]
    ELSE [author |-> Undefined, tweetText |-> Undefined,
          narration |-> Undefined, narrator |-> Undefined]

\* context.tweetText?.substring(0, 50) || 'trash opinion'
tweetPreviewOf(tweetText) ==
    LET preview == IF tweetText.type = "string"
                   THEN Chars(SubSeq(tweetText.codes, 1,
                                     IF Len(tweetText.codes) < 50
                                     THEN Len(tweetText.codes) ELSE 50))
                   ELSE Undefined
    IN  orElse(preview, Str("trash opinion"))

\* generateVideo: the enhanced prompt, as the template chosen and the texts
\* put into it.
enhancedPromptOf(prompt, context) ==
    IF context.narrator = Chars(text_ElonMusk)
    THEN [template |-> "news-anchor", narrator |-> Chars(text_ElonMusk),
          narration |-> context.narration, tweet |-> Undefined,
          visual |-> Undefined]
    ELSE IF truthy(context.narration) /\ truthy(context.narrator)
    THEN [template |-> "trash-throw", narrator |-> context.narrator,
          narration |-> context.narration,
          tweet |-> tweetPreviewOf(context.tweetText), visual |-> Undefined]
    ELSE IF truthy(context.narration)
    THEN [template |-> "narration", narrator |-> Undefined,
          narration |-> context.narration, tweet |-> Undefined,
          visual |-> prompt]
    ELSE [template |-> "none", narrator |-> Undefined,
          narration |-> Undefined, tweet |-> Undefined, visual |-> prompt]

PromptInit ==
    /\ now = 0
    /\ cache = emptyMap
    /\ calls = <<>>
    /\ hist = <<>>
    /\ ncalls = 0
    /\ poll = IdlePoll
    /\ reqs \in [pc : {"storyline"}, route : {"v1", "v2"},
                 body : {Body(Chars(<<103, 109>>), Chars(<<97, 108>>), Undefined, FALSE),
                         Body(Chars(<<104, 105>>), Chars(<<97, 108>>), Undefined, FALSE)},
                 classification : {"slop", "no_slop"},
                 storyline : {<<>>}, sent : {<<>>}]

\* The storyline step ends: generateStoryline returns or raises.
PromptStoryline(reply, character) ==
    /\ reqs.pc = "storyline"
    /\ LET outcome == generateStoryline(reqs.classification, reply, character)
       IN  reqs' = IF outcome.kind = "return"
                   THEN [reqs EXCEPT !.pc = "video", !.storyline = <<outcome.value>>]
                   ELSE [reqs EXCEPT !.pc = "failed"]
    /\ UNCHANGED <<now, cache, calls, hist, ncalls, poll>>

\* The video step: generateVideo(videoPrompt, TARGET_DURATION, videoContext)
\* up to the submission of its prompt.
PromptVideo ==
    /\ reqs.pc = "video"
    /\ LET storyline == reqs.storyline[1]
           context == videoContextOf(reqs.route, reqs.body, storyline)
       IN  reqs' = [reqs EXCEPT !.pc = "submitted",
                                !.sent = <<enhancedPromptOf(videoPromptOf(storyline),
                                                            context)>>]
    /\ UNCHANGED <<now, cache, calls, hist, ncalls, poll>>

PromptNext ==
    \/ \E reply \in PromptReplies, character \in 1..Len(characters) :
          PromptStoryline(reply, character)
    \/ PromptVideo

VideoPromptSpec == PromptInit /\ [][PromptNext]_vars

(***************************************************************************)
(* SubmitSpec: generateVideo, generateVideoFromImage and editVideo from    *)
(* the submission of the job to the end of pollVideoStatus.  reqs is the   *)
(* one call of a behaviour: what the submission met, the request id read   *)
(* from its answer, the sleeps made and the ids the status checks asked    *)
(* for.                                                                    *)
(***************************************************************************)
MaxSubmitAttempts == 2  \* maxAttempts of pollVideoStatus in SubmitSpec

\* The methods and the phrase of their error for a submission refused.
SubmitMethods ==
    {[name |-> "generateVideo", phrase |-> "Video generation failed: "],
     [name |-> "generateVideoFromImage", phrase |-> "Image-to-video generation failed: "],
     [name |-> "editVideo", phrase |-> "Video editing failed: "]}

\* What the POST brings back: fetch rejects, a non-OK status, or an OK
\* response whose JSON body has the given request_id and id.
SubmitAnswers ==
    {[http |-> "throw", request_id |-> Undefined, id |-> Undefined],
     [http |-> "500", request_id |-> Undefined, id |-> Undefined],
     [http |-> "429", request_id |-> Str("r1"), id |-> Undefined]}
    \cup [http : {"ok"}, request_id : {Undefined, Str(""), Str("r1")},
          id : {Undefined, Null, Str("j2")}]

\* What a status check brings back.
StatusAnswers == {"pending", "completed", "failed"}

SubmitInit ==
    /\ now = 0
    /\ cache = emptyMap
    /\ calls = <<>>
    /\ hist = <<>>
    /\ ncalls = 0
    /\ poll = IdlePoll
    /\ reqs \in [pc : {"submitting"}, method : SubmitMethods,
                 answer : SubmitAnswers, requestId : {Undefined},
                 attempt : {0}, sleeps : {0}, asked : {<<>>},
                 outcome : {<<>>}]

\* The await of the POST ends: the throw of a response that is not OK, or
\* `const requestId = data.request_id || data.id` and the call of
\* pollVideoStatus(requestId).
SubmitSettle ==
    /\ reqs.pc = "submitting"
    /\ reqs' = IF reqs.answer.http = "throw"
               THEN [reqs EXCEPT !.pc = "raised", !.outcome = <<"fetch failed">>]
               ELSE IF reqs.answer.http # "ok"
               THEN [reqs EXCEPT !.pc = "raised",
                                 !.outcome = <<reqs.method.phrase, reqs.answer.http>>]
               ELSE [reqs EXCEPT !.pc = "loop",
                                 !.requestId = orElse(reqs.answer.request_id,
                                                      reqs.answer.id)]
    /\ UNCHANGED <<now, cache, calls, hist, ncalls, poll>>

\* pollVideoStatus: the loop test, and await sleep(delay) or the timeout.
SubmitSleep ==
    /\ reqs.pc = "loop"
    /\ reqs' = IF reqs.attempt < MaxSubmitAttempts
               THEN [reqs EXCEPT !.pc = "check", !.sleeps = @ + 1]
               ELSE [reqs EXCEPT !.pc = "raised", !.outcome = TimeoutMessage]
    /\ UNCHANGED <<now, cache, calls, hist, ncalls, poll>>

\* pollVideoStatus: fetch(`${this.baseUrl}/videos/${requestId}`) and what
\* follows from its answer.
SubmitCheck(status) ==
    /\ reqs.pc = "check"
    /\ LET asked == Append(reqs.asked, reqs.requestId)
       IN  reqs' = IF status = "completed"
                   THEN [reqs EXCEPT !.pc = "returned", !.asked = asked,
                                     !.outcome = <<"https://vidgen.x.ai/v.mp4">>]
                   ELSE IF status = "failed"
                   THEN [reqs EXCEPT !.pc = "raised", !.asked = asked,
                                     !.outcome = <<FailedPhrase, ": ", "policy violation">>]
                   ELSE [reqs EXCEPT !.pc = "loop", !.asked = asked,
                                     !.attempt = @ + 1]
    /\ UNCHANGED <<now, cache, calls, hist, ncalls, poll>>

SubmitNext ==
    \/ SubmitSettle
    \/ SubmitSleep
    \/ \E status \in StatusAnswers : SubmitCheck(status)

SubmitSpec == SubmitInit /\ [][SubmitNext]_vars

(***************************************************************************)
(* BatchSpec: router.post('/batch').  reqs holds the one batch request of  *)
(* a behaviour: its tweets, one record per tweet and the response.  The    *)
(* first map of the handler gives every tweet a promise (first: pending,   *)
(* then fulfilled with a value or rejected with a reason); the second map  *)
(* starts once all of them have settled.                                   *)
(***************************************************************************)
\* const MAX_BATCH_SIZE = 5
MAX_BATCH_SIZE == 5

\* The elements a tweets array is made of: a tweet with both fields, one
\* without author, and null.
ValidTweet ==
    [type |-> "object", tweet_id |-> Str("t1"), tweet_text |-> Chars(<<103, 109>>),
     author |-> Chars(<<97, 108>>)]
NoAuthorTweet ==
    [type |-> "object", tweet_id |-> Str("t2"), tweet_text |-> Chars(<<103, 109>>),
     author |-> Undefined]
BatchTweets == {ValidTweet, NoAuthorTweet, Null}

\* req.body.tweets: not an array, or an array of 0..MAX_BATCH_SIZE + 1 tweets.
NotAnArray == <<Undefined>>
TweetArrays ==
    UNION {[1..n -> BatchTweets] : n \in 0..(MAX_BATCH_SIZE + 1)}

\* What the APIs bring back in BatchSpec.
BatchStorylineReplies ==
    {reply \in StorylineReplies :
        reply.http = "500" \/ (reply.http = "ok" /\ "videoPrompt" \in DOMAIN reply.parsed)}
BatchVideoWorlds ==
    {w \in VideoWorlds : w.submit = "500" \/ w.poll = "completed"}
BatchThumbnailWorlds == {"missing", "url"}

\* What an async callback of the first map has returned or thrown.
NoFirst == [status |-> "pending", error |-> <<>>, reason |-> <<>>]

\* The record of a tweet before the handler has looked at it.
IdleItem ==
    [first |-> NoFirst, story |-> NoBranch, video |-> NoBranch, thumb |-> NoBranch]

IdleBatch ==
    [route |-> "v1", pc |-> "idle", tweets |-> <<>>, items |-> <<>>,
     response |-> <<>>]

\* Cache.generateKey('storyline', { tweet_text, author })
batchStorylineKey(tweet) ==
    generateKey("storyline",
        Object(<< <<name_tweet_text, tweet.tweet_text>>,
                  <<name_author, tweet.author>> >>))

\* Cache.generateKey('video', { prompt: videoPrompt })
batchVideoKey(storyline) ==
    generateKey("video", Object(<< <<name_prompt, videoPromptOf(storyline)>> >>))

\* The callback of the first map for one tweet, up to its await: the record
\* of the tweet and the Map after the lookup.
startStoryline(c, tweet, t) ==
    LET s == startBranch(c, batchStorylineKey(tweet), t)
    IN  IF tweet.type = "null"
        THEN [item |-> [IdleItem EXCEPT !.first =
                          [status |-> "rejected", error |-> <<>>,
                           reason |-> <<"Cannot destructure property 'tweet_text' of 'tweet' as it is null.">>]],
              cache |-> c]
        ELSE IF ~truthy(tweet.tweet_text) \/ ~truthy(tweet.author)
        THEN [item |-> [IdleItem EXCEPT !.first =
                          [status |-> "fulfilled",
                           error |-> <<"tweet_text and author are required">>,
                           reason |-> <<>>]],
              cache |-> c]
        ELSE [item |-> [IdleItem EXCEPT
                          !.story = s.branch,
                          !.first = IF s.branch.state = "fulfilled"
                                    THEN [NoFirst EXCEPT !.status = "fulfilled"]
                                    ELSE NoFirst],
              cache |-> s.cache]

\* tweets.map(async (tweet, index) => ...): the callbacks run one after the
\* other, each up to its await.
RECURSIVE storylinePromises(_, _, _, _)
storylinePromises(c, tweets, n, t) ==
    IF n > Len(tweets) THEN [items |-> <<>>, cache |-> c]
    ELSE LET head == startStoryline(c, tweets[n], t)
             rest == storylinePromises(head.cache, tweets, n + 1, t)
         IN  [items |-> <<head.item>> \o rest.items, cache |-> rest.cache]

\* A limit that lets one more tweet through.
exceedsOnePast(length) == length > MAX_BATCH_SIZE + 1

\* tweets.length > MAX_BATCH_SIZE
exceeds(length) == length > MAX_BATCH_SIZE

batchErrorResponse(message) ==
    [status |-> 400, error |-> message, results |-> <<>>, processed |-> 0,
     failed |-> 0]

\* router.post('/batch'): the request arrives; validation, and the first map.
BatchReceive(tweets) ==
    /\ reqs.pc = "idle"
    /\ LET started == storylinePromises(cache, tweets, 1, now)
       IN  IF tweets = NotAnArray \/ Len(tweets) = 0
           THEN /\ reqs' = [reqs EXCEPT !.pc = "done", !.tweets = tweets,
                               !.response = <<batchErrorResponse(
                                                <<"tweets array is required">>)>>]
                /\ cache' = cache
           ELSE IF exceeds(Len(tweets))
           THEN /\ reqs' = [reqs EXCEPT !.pc = "done", !.tweets = tweets,
                               !.response = <<batchErrorResponse(
                                                <<"Batch size exceeds maximum of ", "5">>)>>]
                /\ cache' = cache
           ELSE /\ reqs' = [reqs EXCEPT !.pc = "storylines", !.tweets = tweets,
                               !.items = started.items]
                /\ cache' = started.cache
    /\ UNCHANGED <<now, calls, hist, ncalls, poll>>

\* generateStoryline has settled for tweet i: the rest of getOrCompute, and
\* the rest of the callback (its try/catch turns a rejection into a value
\* with an error).
BatchStorylineSettle(i, reply, character) ==
    /\ reqs.pc = "storylines"
    /\ i \in 1..Len(reqs.items)
    /\ reqs.items[i].story.state = "computing"
    /\ LET item == reqs.items[i]
           outcome == generateStoryline("slop", reply, character)
       IN  /\ cache' = settleCache(cache, item.story, outcome, CACHE_TTL_STORYLINE, now)
           /\ reqs' = [reqs EXCEPT !.items[i] =
                         [item EXCEPT !.story = settleBranch(@, outcome, CACHE_TTL_STORYLINE, now),
                                      !.first = [status |-> "fulfilled",
                                                 error |-> outcome.message,
                                                 reason |-> <<>>]]]
    /\ UNCHANGED <<now, calls, hist, ncalls, poll>>

\* result.status === 'rejected' || result.value.error
passedOn(item) == item.first.status = "rejected" \/ item.first.error # <<>>

\* The callback of the second map for one tweet, up to its await.
startMedia(c, route, item, t) ==
    LET storyline == awaitedValue(item.story)
        v == startBranch(c, batchVideoKey(storyline), t)
        th == startBranch(v.cache, thumbnailKey(storyline), t)
    IN  IF passedOn(item) THEN [item |-> item, cache |-> c]
        ELSE IF route = "v1"
        THEN [item |-> [item EXCEPT !.video = v.branch], cache |-> v.cache]
        ELSE [item |-> [item EXCEPT !.video = v.branch, !.thumb = th.branch],
              cache |-> th.cache]

\* storylineResults.map(async (result, index) => ...)
RECURSIVE mediaPromises(_, _, _, _, _)
mediaPromises(c, route, items, n, t) ==
    IF n > Len(items) THEN [items |-> <<>>, cache |-> c]
    ELSE LET head == startMedia(c, route, items[n], t)
             rest == mediaPromises(head.cache, route, items, n + 1, t)
         IN  [items |-> <<head.item>> \o rest.items, cache |-> rest.cache]

\* A join of the first map that is over at its first failure.
firstSettledOrFailed(items) ==
    \/ \A n \in 1..Len(items) : items[n].first.status # "pending"
    \/ \E n \in 1..Len(items) : passedOn(items[n])

\* A join of the first map that is over once one of its promises has
\* settled.
anySettled(items) == \E n \in 1..Len(items) : items[n].first.status # "pending"

\* await Promise.allSettled(storylinePromises)
firstSettled(items) == \A n \in 1..Len(items) : items[n].first.status # "pending"

\* Every promise of the first map has settled: the second map.
BatchAfterStorylines ==
    /\ reqs.pc = "storylines"
    /\ firstSettled(reqs.items)
    /\ LET started == mediaPromises(cache, reqs.route, reqs.items, 1, now)
       IN  /\ reqs' = [reqs EXCEPT !.pc = "media", !.items = started.items]
           /\ cache' = started.cache
    /\ UNCHANGED <<now, calls, hist, ncalls, poll>>

\* generateVideo has settled for tweet i: the rest of getOrCompute.
BatchVideoSettle(i, w) ==
    /\ reqs.pc = "media"
    /\ i \in 1..Len(reqs.items)
    /\ reqs.items[i].video.state = "computing"
    /\ LET item == reqs.items[i]
           outcome == generateVideo(videoPromptOf(awaitedValue(item.story)), 15, w)
       IN  /\ cache' = settleCache(cache, item.video, outcome, CACHE_TTL_VIDEO, now)
           /\ reqs' = [reqs EXCEPT !.items[i].video = settleBranch(@, outcome, CACHE_TTL_VIDEO, now)]
    /\ UNCHANGED <<now, calls, hist, ncalls, poll>>

\* v2: generateThumbnail has settled for tweet i: the rest of getOrCompute.
BatchThumbnailSettle(i, w) ==
    /\ reqs.pc = "media"
    /\ i \in 1..Len(reqs.items)
    /\ reqs.items[i].thumb.state = "computing"
    /\ LET item == reqs.items[i]
           outcome == generateThumbnail(w)
       IN  /\ cache' = settleCache(cache, item.thumb, outcome, CACHE_TTL_THUMBNAIL, now)
           /\ reqs' = [reqs EXCEPT !.items[i].thumb = settleBranch(@, outcome, CACHE_TTL_THUMBNAIL, now)]
    /\ UNCHANGED <<now, calls, hist, ncalls, poll>>

\* An element of the results array.  index is <<index>>, or <<>> when the
\* element has none; error is the message, <<>> when there is none (or null).
BatchResult(index, error, tweet_id, video_url, thumbnail_url) ==
    [index |-> index, error |-> error, tweet_id |-> tweet_id,
     video_url |-> video_url, thumbnail_url |-> thumbnail_url]

\* An element that has lost its index.
mediaResultUnindexed(route, item, tweet, index) ==
    BatchResult(<<>>, item.first.error \o item.first.reason, Undefined,
                Undefined, Undefined)

\* What the callback of the second map returns for one tweet.
mediaResult(route, item, tweet, index) ==
    LET video == awaitedValue(item.video)
        thumbnail == awaitedValue(item.thumb)
    IN  IF passedOn(item)
        THEN BatchResult(<<index>>, item.first.error \o item.first.reason,
                         Undefined, Undefined, Undefined)
        ELSE IF route = "v1"
        THEN IF item.video.state = "rejected"
             THEN BatchResult(<<index>>, <<FailedPhrase, ": ">> \o item.video.reason,
                              tweet.tweet_id, Undefined, Undefined)
             ELSE BatchResult(<<index>>, <<>>, tweet.tweet_id,
                              orElse(getField(video, "videoUrl"), Null), Undefined)
        ELSE BatchResult(<<index>>,
                         IF item.video.state = "rejected" THEN <<FailedPhrase>>
                         ELSE <<>>,
                         tweet.tweet_id,
                         orElse(getField(video, "videoUrl"), Null),
                         orElse(getField(thumbnail, "thumbnailUrl"), Null))

\* The second map's promise of a tweet has settled.
mediaSettled(item) ==
    /\ item.video.state # "computing"
    /\ item.thumb.state # "computing"

\* Every promise of the second map has settled: the results are flattened
\* and sent.
BatchRespond ==
    /\ reqs.pc = "media"
    /\ \A n \in 1..Len(reqs.items) : mediaSettled(reqs.items[n])
    /\ LET processedResults ==
               [n \in 1..Len(reqs.items) |->
                   mediaResult(reqs.route, reqs.items[n], reqs.tweets[n], n - 1)]
           failed == Cardinality({n \in 1..Len(reqs.items) :
                                     processedResults[n].error # <<>>})
       IN  reqs' = [reqs EXCEPT !.pc = "done",
                       !.response = <<[status |-> 200, error |-> <<>>,
                                       results |-> processedResults,
                                       processed |-> Len(reqs.items) - failed,
                                       failed |-> failed]>>]
    /\ UNCHANGED <<now, cache, calls, hist, ncalls, poll>>

\* The server has started, with one version of the handler or the other.
BatchInit ==
    /\ now = 0
    /\ cache = emptyMap
    /\ calls = <<>>
    /\ hist = <<>>
    /\ ncalls = 0
    /\ poll = IdlePoll
    /\ reqs \in {[IdleBatch EXCEPT !.route = route] : route \in {"v1", "v2"}}

BatchNext ==
    \/ \E tweets \in {NotAnArray} \cup TweetArrays : BatchReceive(tweets)
    \/ \E i \in 1..MAX_BATCH_SIZE, reply \in BatchStorylineReplies,
          character \in CharacterDraws : BatchStorylineSettle(i, reply, character)
    \/ BatchAfterStorylines
    \/ \E i \in 1..MAX_BATCH_SIZE, w \in BatchVideoWorlds : BatchVideoSettle(i, w)
    \/ \E i \in 1..MAX_BATCH_SIZE, w \in BatchThumbnailWorlds : BatchThumbnailSettle(i, w)
    \/ BatchRespond

BatchSpec == BatchInit /\ [][BatchNext]_vars

(***************************************************************************)
(* Claims about getOrCompute (CacheSpec).                                  *)
(***************************************************************************)
\* A call that has started and whose predecessor on the same key is known:
\* the two ran one after the other, no other call on the key overlapped
\* either, and the key's entry was not touched in between.
IsSecond(s) == s.pc # "idle" /\ s.solo /\ s.first # <<>>

Invocations(s) == (IF s.first[1].invoked THEN 1 ELSE 0) + (IF s.invoked THEN 1 ELSE 0)

\* C1, as stated: two getOrCompute calls on a key, one after the other, the
\* first a miss: computeFn is invoked once in total when the second call
\* starts before the TTL has elapsed, twice when it starts after, and a hit
\* returns the cached value.
C1_OnceWithinTtlTwiceAfter ==
    \A c \in Callers :
        LET s == calls[c] IN
        (IsSecond(s) /\ s.first[1].invoked) =>
            /\ s.within => Invocations(s) = 1
            /\ ~s.within => Invocations(s) = 2
            /\ s.outcome = "hit" => s.result = s.first[1].result

\* C1, amended: the same, for a first call whose computeFn resolved with a
\* value other than undefined.
C1_OnceWithinTtlTwiceAfter_Stored ==
    \A c \in Callers :
        LET s == calls[c] IN
        (/\ IsSecond(s)
         /\ s.first[1].invoked
         /\ s.first[1].outcome = "computed"
         /\ s.first[1].result # Undefined) =>
            /\ s.within => (Invocations(s) = 1 /\ s.outcome = "hit")
            /\ ~s.within => Invocations(s) = 2
            /\ s.outcome = "hit" => s.result = s.first[1].result

\* C1, witness: a second call served from the entry the first call stored.
C1_Witness ==
    \E c \in Callers :
        LET s == calls[c] IN
        /\ IsSecond(s)
        /\ s.first[1].outcome = "computed"
        /\ s.first[1].result = Str("v2")
        /\ s.outcome = "hit"
        /\ s.result = Str("v2")
        /\ now > 0

\* The Map a call found, less the entry of its key when that entry had
\* expired by the time the call looked it up.
LessStale(s) ==
    IF s.key \in DOMAIN s.pre /\ s.start > s.pre[s.key].expiresAt
    THEN [x \in (DOMAIN s.pre) \ {s.key} |-> s.pre[x]]
    ELSE s.pre

Raised(s) == s.pc = "done" /\ s.outcome = "raised"

\* The call after one that raised invokes computeFn again.
RecomputesAfterRaise ==
    \A c \in Callers :
        LET s == calls[c] IN
        (IsSecond(s) /\ s.first[1].outcome = "raised") => s.invoked

\* C2, as stated: when computeFn throws, the error reaches the caller, the
\* cache is exactly as it was before the call, and the next call on the key
\* invokes computeFn again.
C2_RaiseLeavesCacheAsBefore ==
    /\ \A c \in Callers :
          LET s == calls[c] IN
          (Raised(s) /\ s.quiet) => (s.error \in ComputeErrors /\ cache = s.pre)
    /\ RecomputesAfterRaise

\* C2, amended: the cache is as it was before the call but for an expired
\* entry of that key, which the call's own lookup has removed.
C2_RaiseLeavesCacheButStale ==
    /\ \A c \in Callers :
          LET s == calls[c] IN
          (Raised(s) /\ s.quiet) =>
              (s.error \in ComputeErrors /\ cache = LessStale(s))
    /\ RecomputesAfterRaise

\* C2, witness: a call has raised over a cache that held an entry, and the
\* call before it on the same key had raised as well.
C2_Witness ==
    \E c \in Callers :
        LET s == calls[c] IN
        /\ Raised(s) /\ s.quiet
        /\ DOMAIN s.pre # {}
        /\ IsSecond(s) /\ s.first[1].outcome = "raised"

(***************************************************************************)
(* Claims about the single-tweet handler (Spec).                           *)
(***************************************************************************)
Positions(log, event) == {i \in 1..Len(log) : log[i] = event}

MediaBegins == {"generateVideo+", "generateThumbnail+", "generateCohesiveVideo+"}

MediaInFlight(q) ==
    \/ q.video.state = "computing"
    \/ q.thumb.state = "computing"
    \/ q.cohesive.state = "computing"

\* Every call the request has begun has ended.
NothingInFlight(q) ==
    \A pair \in {<<"classifyTweet+", "classifyTweet-">>,
                 <<"generateStoryline+", "generateStoryline-">>,
                 <<"generateVideo+", "generateVideo-">>,
                 <<"generateThumbnail+", "generateThumbnail-">>,
                 <<"generateCohesiveVideo+", "generateCohesiveVideo-">>} :
        Cardinality(Positions(q.log, pair[1])) = Cardinality(Positions(q.log, pair[2]))

\* A request of the standard pipeline: v2 without use_cohesive_video.
Standard(q) ==
    reqs.route = "v2" /\ q.body # <<>> /\ ~q.body[1].use_cohesive_video

\* C3: in the standard pipeline, once the storyline step has succeeded, the
\* response is a success exactly when the video branch succeeded: with the
\* thumbnail branch failed and the video there it is a success with a null
\* thumbnail URL, and with the video branch failed it is a 500 whose message
\* carries the message of the video failure, whatever the thumbnail did.
C3_SuccessIffVideo ==
    \A r \in Requests :
        LET q == reqs.of[r] IN
        (q.pc = "done" /\ Standard(q) /\ q.story.state = "fulfilled") =>
            LET res == q.response[1] IN
            /\ res.status \in {200, 500}
            /\ res.status = 200 <=> q.video.state = "fulfilled"
            /\ q.video.state = "fulfilled" =>
                  /\ res.video_url = q.video.value[1].videoUrl
                  /\ q.thumb.state = "rejected" => res.thumbnail_url = Null
            /\ q.video.state # "fulfilled" =>
                  /\ q.video.state = "rejected"
                  /\ q.video.reason # <<>>
                  /\ res.error = <<FailedPhrase, ": ">> \o q.video.reason

\* C3, witness: the video is there, the thumbnail branch was rejected, and
\* the response is a success without thumbnail.
C3_Witness ==
    \E r \in Requests :
        LET q == reqs.of[r] IN
        /\ q.pc = "done" /\ Standard(q)
        /\ q.video.state = "fulfilled" /\ q.video.from = "computed"
        /\ q.thumb.state = "rejected"
        /\ q.response[1].status = 200
        /\ q.response[1].thumbnail_url = Null

\* What a step may do to a request of the standard pipeline one of whose
\* media branches has not settled: the request stays in its media step and a
\* branch that has settled keeps its outcome.
KeepsUnsettledJoin(q, qNext) ==
    (q.pc = "media" /\ Standard(q) /\ MediaInFlight(q)) =>
        /\ qNext.pc = "media"
        /\ awaited(q.video) => qNext.video = q.video
        /\ awaited(q.thumb) => qNext.thumb = q.thumb

\* The step in which a media branch is fulfilled with a computed value
\* leaves that value in the cache under the branch's key.
StoresComputed(branch, branchNext) ==
    (branch.state = "computing" /\ branchNext.state = "fulfilled") =>
        /\ branchNext.key \in DOMAIN cache'
        /\ cache'[branchNext.key].value = branchNext.value[1]

\* C4: in the standard pipeline the video branch and the thumbnail branch are
\* both started; the failure of one neither ends the request nor touches the
\* other; the response comes only after both have settled, every call begun
\* having ended; a computed thumbnail (or video) is stored in the cache
\* whatever the other branch did.
C4_BothBranchesSettle ==
    /\ [](\A r \in Requests :
            LET q == reqs.of[r] IN
            (Standard(q) /\ q.story.state = "fulfilled") =>
                /\ q.pc = "media" => (q.video.state # "none" /\ q.thumb.state # "none")
                /\ q.pc = "done" =>
                      /\ awaited(q.video) /\ awaited(q.thumb)
                      /\ NothingInFlight(q))
    /\ [][\A r \in Requests :
            /\ KeepsUnsettledJoin(reqs.of[r], reqs'.of[r])
            /\ Standard(reqs.of[r]) =>
                  /\ StoresComputed(reqs.of[r].thumb, reqs'.of[r].thumb)
                  /\ StoresComputed(reqs.of[r].video, reqs'.of[r].video)]_vars

\* C4, witness: the video branch failed first, the thumbnail was generated
\* after that and is in the cache when the request is answered with the
\* error.
C4_Witness ==
    \E r \in Requests :
        LET q == reqs.of[r] IN
        /\ q.pc = "done" /\ Standard(q)
        /\ q.video.state = "rejected"
        /\ q.thumb.state = "fulfilled" /\ q.thumb.from = "computed"
        /\ q.thumb.value[1].thumbnailUrl = Str("https://imgen.x.ai/thumb.png")
        /\ q.thumb.key \in DOMAIN cache
        /\ q.thumb.key \in q.added
        /\ \E i \in Positions(q.log, "generateVideo-") :
              \E j \in Positions(q.log, "generateThumbnail-") : i < j
        /\ q.response[1].status = 500

\* C5: within a request, classifyTweet has ended (returned or raised) before
\* the storyline step begins, the storyline step has ended before a media
\* generation begins, and no media generation is in flight while the
\* storyline step is pending.
C5_StepsInOrder ==
    \A r \in Requests :
        LET q == reqs.of[r]
            log == q.log
        IN  /\ \A i \in Positions(log, "generateStoryline+") :
                  /\ \A j \in Positions(log, "classifyTweet+") :
                        \E k \in Positions(log, "classifyTweet-") : j < k /\ k < i
                  /\ reqs.route = "v1" => Positions(log, "classifyTweet-") # {}
            /\ \A i \in 1..Len(log) :
                  log[i] \in MediaBegins =>
                      \A j \in Positions(log, "generateStoryline+") :
                          \E k \in Positions(log, "generateStoryline-") : j < k /\ k < i
            /\ (reqs.route = "v1" /\ q.story.state # "none") =>
                  (q.classified # "none" /\ q.pc # "classify")
            /\ (MediaInFlight(q) \/ q.pc = "media") => q.story.state = "fulfilled"
            /\ q.story.state \in {"none", "computing"} =>
                  /\ ~MediaInFlight(q)
                  /\ \A i \in 1..Len(log) : log[i] \notin MediaBegins

\* C5, witness: v1 with every step computed, the video generation in flight.
C5_Witness ==
    \E r \in Requests :
        LET q == reqs.of[r] IN
        /\ reqs.route = "v1"
        /\ q.log = <<"classifyTweet+", "classifyTweet-", "generateStoryline+",
                     "generateStoryline-", "generateVideo+">>
        /\ q.video.state = "computing"

\* C6: when the storyline step fails, the request is answered with an error
\* that carries the message of the failure, no video, thumbnail or cohesive
\* generation is called for it, and none of its steps has created or
\* replaced a cache entry.
C6_StorylineFailureIsHard ==
    \A r \in Requests :
        LET q == reqs.of[r] IN
        (q.pc = "done" /\ q.story.state = "rejected") =>
            /\ q.response[1].status = 500
            /\ q.story.reason # <<>>
            /\ q.response[1].error = q.story.reason
            /\ \A i \in 1..Len(q.log) : q.log[i] \notin MediaBegins
            /\ q.video = NoBranch /\ q.thumb = NoBranch /\ q.cohesive = NoBranch
            /\ q.added = {}
            /\ q.story.key \notin DOMAIN cache

\* C6, witness: a storyline refused by the API while the cache holds the
\* entries of an earlier request.
C6_Witness ==
    \E r \in Requests :
        LET q == reqs.of[r] IN
        /\ q.pc = "done" /\ q.story.state = "rejected"
        /\ q.response[1].error = <<"Storyline generation failed: ", "overloaded">>
        /\ cache # emptyMap
        /\ now > 0

\* C7: when classifyTweet raises, the request does not fail for it: the
\* classification is 'slop', the storyline step is begun with it, the media
\* step follows a storyline, and the response is a success exactly when the
\* video is there, its error otherwise being that of the storyline or of the
\* video step.
C7_ClassifyFailureFallsBack ==
    \A r \in Requests :
        LET q == reqs.of[r] IN
        (reqs.route = "v1" /\ q.classified = "raised") =>
            /\ q.classification = "slop"
            /\ q.pc \in {"storyline", "media", "done"}
            /\ q.story.state # "none"
            /\ q.story.key = storylineKey("v1", q.body[1], "slop")
            /\ q.story.state = "fulfilled" =>
                  getField(q.story.value[1], "classification") = Chars(text_slop)
            /\ (q.pc \in {"media", "done"} /\ q.story.state = "fulfilled") =>
                  q.video.state # "none"
            /\ q.pc = "done" =>
                  /\ q.response[1].status = 200 <=> q.video.state = "fulfilled"
                  /\ q.response[1].status = 200 =>
                        q.response[1].classification = Chars(text_slop)
                  /\ q.response[1].status # 200 =>
                        /\ q.response[1].status = 500
                        /\ \/ q.story.state = "rejected"
                              /\ q.response[1].error = q.story.reason
                           \/ q.video.state = "rejected"
                              /\ q.response[1].error = q.video.reason

\* C7, witness: classifyTweet raised and the request was answered with the
\* video of a 'slop' storyline.
C7_Witness ==
    \E r \in Requests :
        LET q == reqs.of[r] IN
        /\ reqs.route = "v1" /\ q.classified = "raised"
        /\ q.pc = "done"
        /\ q.story.from = "computed" /\ q.video.from = "computed"
        /\ q.response[1].status = 200
        /\ q.response[1].classification = Chars(text_slop)

(***************************************************************************)
(* Claims about pollVideoStatus (PollSpec, PollFairSpec).                  *)
(***************************************************************************)
Checked == poll.last # <<>>
Ended == poll.pc \in {"completed", "failed", "timeout"}

\* The parsed response says the job failed.
ExplicitFailure(r) ==
    r.http = "ok" /\ r.body = "json" /\ (r.status = Str("failed") \/ truthy(r.error))

\* The parsed response carries a result URL in one of the three shapes.
HasResultUrl(r) ==
    /\ r.http = "ok" /\ r.body = "json"
    /\ \/ truthy(r.video_url)
       \/ truthy(r.url)
       \/ (r.status = Str("completed") /\ truthy(r.output_url))

\* HTTP 429, another non-OK status, a thrown network or parse error, or an OK
\* response with neither a result URL nor a failure.
Transient(r) ==
    \/ r.http \in {"429", "500", "throw"}
    \/ r.body \in {"unparsable", "null"}
    \/ (~HasResultUrl(r) /\ ~ExplicitFailure(r))

RaisedOnThatPoll ==
    /\ poll.pc = "failed"
    /\ includes(poll.error, FailedPhrase)
    /\ poll.error # TimeoutMessage
    /\ poll.checks = poll.attempt + 1

\* C8, as stated: a status check that returns an explicit failure (status
\* 'failed' or an error field) makes the poller raise on that very poll,
\* whatever budget remains, and not as a timeout.
C8_ExplicitFailureRaises ==
    (Checked /\ ExplicitFailure(poll.last[1])) => RaisedOnThatPoll

\* C8, amended: the same for an explicit failure that comes without a result
\* URL; a response that carries both completes the job.
C8_FailureWithoutUrlRaises ==
    /\ (Checked /\ ExplicitFailure(poll.last[1]) /\ ~HasResultUrl(poll.last[1]))
          => RaisedOnThatPoll
    /\ (Checked /\ ExplicitFailure(poll.last[1]) /\ HasResultUrl(poll.last[1]))
          => poll.pc = "completed"

\* C8, witness: {status: 'failed', error: 'policy violation'} on the first of
\* sixty polls.
C8_Witness ==
    /\ poll.pc = "failed"
    /\ poll.maxAttempts = defaultMaxAttempts
    /\ poll.checks = 1
    /\ poll.last[1].status = Str("failed")
    /\ poll.last[1].error = Str("policy violation")
    /\ poll.error = <<FailedPhrase, ": ", "policy violation">>

PollBounded ==
    /\ poll.checks <= poll.maxAttempts
    /\ poll.pc = "timeout" =>
          /\ poll.checks = poll.maxAttempts
          /\ poll.error = TimeoutMessage
          /\ poll.url = Undefined
          /\ Checked => Transient(poll.last[1])
    /\ poll.pc = "completed" => (truthy(poll.url) /\ poll.error = <<>>)
    /\ poll.pc = "failed" => (poll.url = Undefined /\ poll.error # <<>>)

\* What is left of the loop: two steps for every attempt not yet made, one
\* less once the sleep of the current attempt is over; nothing at the end.
PollRank ==
    IF Ended \/ poll.pc = "idle" THEN 0
    ELSE 2 * (poll.maxAttempts - poll.attempt) - (IF poll.pc = "fetching" THEN 1 ELSE 0) + 1

\* C9: pollVideoStatus makes at most maxAttempts status checks, ends in
\* exactly one of completed(url), failed and timed out, in a timeout when no
\* check reported completion or failure, makes no status check once it has
\* ended, and does end whatever the status checks bring back.
C9_PollTerminates ==
    /\ []PollBounded
    /\ [][Ended => (poll' = IdlePoll)]_poll
    /\ [][(poll.pc \in {"sleeping", "fetching"}) =>
             (PollRank' < PollRank /\ PollRank' >= 0)]_poll
    /\ (poll.pc \in {"sleeping", "fetching"}) ~> Ended

\* C9, witness: the default budget of sixty checks is used up.
C9_Witness ==
    /\ poll.pc = "timeout"
    /\ poll.maxAttempts = defaultMaxAttempts
    /\ poll.checks = defaultMaxAttempts

\* C10: a transient status check is never surfaced as a failure; while
\* budget remains the poller sleeps and checks again, and a job that was
\* rate limited returns the URL of the completed response all the same.
C10_TransientIsRetried ==
    /\ (Checked /\ Transient(poll.last[1])) =>
          /\ poll.pc \notin {"failed", "completed"}
          /\ poll.checks < poll.maxAttempts => poll.pc = "sleeping"
          /\ poll.checks >= poll.maxAttempts => poll.pc = "timeout"
    /\ (poll.pc = "completed" /\ poll.limited) =>
          /\ HasResultUrl(poll.last[1])
          /\ poll.url \in {poll.last[1].video_url, poll.last[1].url,
                           poll.last[1].output_url}

\* C10, witness: two polls answered 429, the third completed.
C10_Witness ==
    /\ poll.pc = "completed"
    /\ poll.limited
    /\ poll.checks = 3
    /\ poll.url = Str("https://vidgen.x.ai/nested.mp4")

\* C11: a status check completes the job exactly when its response carries
\* a result URL in one of three shapes, looked for in this order: video.url,
\* then url, then output.url under status 'completed'; the URL returned is
\* that of the first shape found.
C11_FirstShapeWins ==
    Checked =>
        LET r == poll.last[1] IN
        /\ poll.pc = "completed" <=> HasResultUrl(r)
        /\ poll.pc = "completed" =>
              /\ truthy(r.video_url) => poll.url = r.video_url
              /\ (~truthy(r.video_url) /\ truthy(r.url)) => poll.url = r.url
              /\ (~truthy(r.video_url) /\ ~truthy(r.url)) =>
                    /\ r.status = Str("completed")
                    /\ poll.url = r.output_url

\* C11, witness: a response with the three shapes at once, each with its own
\* URL; the nested one is returned.
C11_Witness ==
    /\ poll.pc = "completed"
    /\ poll.last[1].video_url = Str("https://vidgen.x.ai/nested.mp4")
    /\ poll.last[1].url = Str("https://vidgen.x.ai/flat.mp4")
    /\ poll.last[1].status = Str("completed")
    /\ poll.last[1].output_url = Str("https://vidgen.x.ai/output.mp4")
    /\ poll.url = Str("https://vidgen.x.ai/nested.mp4")

(***************************************************************************)
(* Claims about getBackoffDelay (BackoffSpec).                             *)
(***************************************************************************)
\* A call of getBackoffDelay has returned, Math.random() having given 0.
ReturnedWithoutJitter == poll.pc = "returned" /\ poll.random = 0

\* The call had base 1000 and cap 30000 and an attempt among 0..6.
SpecExample ==
    /\ ReturnedWithoutJitter
    /\ poll.baseDelay = 1000 /\ poll.maxDelay = 30000
    /\ poll.attempt \in 0..6

BatchReceived == reqs.pc # "idle"
IsArray == reqs.tweets # NotAnArray

\* Some generation call has been made for the batch.
BatchWorkBegun ==
    \E n \in 1..Len(reqs.items) :
        \/ reqs.items[n].story.state # "none"
        \/ reqs.items[n].video.state # "none"
        \/ reqs.items[n].thumb.state # "none"

\* C13: a batch of more than 5 tweets is answered with a validation error
\* before any work begins: no storyline, video or thumbnail step is begun
\* and the cache is as it was; a batch of 1 to 5 tweets is accepted, every
\* tweet getting its record and the answer being a 200.
C13_OversizeRejectedEarly ==
    (BatchReceived /\ IsArray) =>
        /\ Len(reqs.tweets) > 5 =>
              /\ reqs.pc = "done"
              /\ reqs.response[1].status = 400
              /\ reqs.response[1].error = <<"Batch size exceeds maximum of ", "5">>
              /\ reqs.items = <<>>
              /\ ~BatchWorkBegun
              /\ cache = emptyMap
        /\ Len(reqs.tweets) \in 1..5 =>
              /\ Len(reqs.items) = Len(reqs.tweets)
              /\ reqs.pc = "done" => reqs.response[1].status = 200

\* C13, witness: six valid tweets, rejected.
C13_Witness ==
    /\ reqs.pc = "done"
    /\ IsArray
    /\ Len(reqs.tweets) = 6
    /\ \A n \in 1..6 : reqs.tweets[n] = ValidTweet
    /\ reqs.response[1].status = 400

\* The tweet has the fields the handler requires.
HasFields(tweet) ==
    tweet.type = "object" /\ truthy(tweet.tweet_text) /\ truthy(tweet.author)

BatchAccepted == reqs.pc \in {"storylines", "media", "done"} /\ reqs.items # <<>>

\* C14: in an accepted batch every tweet with the required fields has its
\* storyline step begun; once the storylines have settled, a tweet has a
\* video step exactly when its storyline succeeded (none when its fields
\* are missing or its storyline failed); a tweet with storyline and video
\* is a success in the results whatever became of the others; and a step
\* changes the record of no more than one tweet unless it is one of the two
\* maps or the answer.
C14_ItemsAreIsolated ==
    /\ [](BatchAccepted =>
            \A n \in 1..Len(reqs.items) :
                LET item == reqs.items[n] IN
                /\ HasFields(reqs.tweets[n]) <=> item.story.state # "none"
                /\ item.video.state # "none" =>
                      (item.story.state = "fulfilled" /\ reqs.pc \in {"media", "done"})
                /\ item.thumb.state # "none" => item.video.state # "none"
                /\ reqs.pc \in {"media", "done"} =>
                      /\ item.story.state # "computing"
                      /\ item.story.state = "fulfilled" => item.video.state # "none"
                /\ reqs.pc = "done" =>
                      /\ item.story.state \in {"none", "fulfilled", "rejected"}
                      /\ item.video.state \in {"none", "fulfilled", "rejected"}
                      /\ reqs.response[1].results[n].error = <<>>
                            <=> item.video.state = "fulfilled")
    /\ [][(BatchAccepted /\ reqs'.pc = reqs.pc) =>
             Cardinality({n \in 1..Len(reqs.items) :
                             reqs'.items[n] # reqs.items[n]}) <= 1]_vars

\* C14, witness: five tweets, the second without author, the storyline of
\* the third failed, the video of the fifth failed; the first and the fourth
\* are successes.
C14_Witness ==
    /\ reqs.pc = "done"
    /\ Len(reqs.items) = 5
    /\ reqs.tweets[2] = NoAuthorTweet
    /\ reqs.items[3].story.state = "rejected"
    /\ reqs.items[5].video.state = "rejected"
    /\ \A n \in {1, 4} :
          /\ reqs.items[n].video.state = "fulfilled"
          /\ reqs.response[1].results[n].error = <<>>
          /\ reqs.response[1].results[n].video_url = Str("https://vidgen.x.ai/nested.mp4")
    /\ \A n \in {2, 3, 5} : reqs.response[1].results[n].error # <<>>

\* C15: the results of an answered batch have one element per tweet, in the
\* order of the tweets: the element at position i carries index i and is
\* either a success with the tweet's id and a video URL, or an error record
\* with the error of that very tweet.
C15_ResultsFollowInput ==
    (reqs.pc = "done" /\ reqs.response[1].status = 200) =>
        LET results == reqs.response[1].results IN
        /\ Len(results) = Len(reqs.tweets)
        /\ reqs.response[1].processed + reqs.response[1].failed = Len(reqs.tweets)
        /\ \A n \in 1..Len(reqs.tweets) :
              /\ results[n].index = <<n - 1>>
              /\ results[n].error = <<>> =>
                    /\ HasFields(reqs.tweets[n])
                    /\ results[n].tweet_id = reqs.tweets[n].tweet_id
                    /\ truthy(results[n].video_url)
              /\ reqs.tweets[n] = Null =>
                    results[n].error = reqs.items[n].first.reason
              /\ reqs.tweets[n] = NoAuthorTweet =>
                    results[n].error = <<"tweet_text and author are required">>
              /\ (HasFields(reqs.tweets[n]) /\ results[n].error # <<>>) =>
                    \/ reqs.items[n].story.state = "rejected"
                       /\ results[n].error = reqs.items[n].story.reason
                    \/ reqs.items[n].video.state = "rejected"

\* C15, witness: null, a valid tweet and one without author, in this order;
\* the valid one is a success at position 1.
C15_Witness ==
    /\ reqs.pc = "done"
    /\ reqs.tweets = <<Null, ValidTweet, NoAuthorTweet>>
    /\ reqs.response[1].results[1].index = <<0>>
    /\ reqs.response[1].results[2].index = <<1>>
    /\ reqs.response[1].results[2].error = <<>>
    /\ reqs.response[1].results[3].index = <<2>>
    /\ reqs.response[1].processed = 1

\* The body of the single-tweet request for the same tweet.
bodyOf(tweet) == Body(tweet.tweet_text, tweet.author, Undefined, FALSE)

\* C16: a batch of one tweet performs the steps of the single-tweet handler
\* for that tweet: its storyline is cached under the key the single-tweet
\* handler uses for the tweet (with the classification, whichever it is) and
\* its video under the key the single-tweet handler uses.
C16_BatchAppliesSinglePipeline ==
    (BatchAccepted /\ Len(reqs.tweets) = 1 /\ HasFields(reqs.tweets[1])) =>
        LET item == reqs.items[1]
            body == bodyOf(reqs.tweets[1])
        IN  /\ \E classification \in {"slop", "no_slop"} :
                  item.story.key = storylineKey(reqs.route, body, classification)
            /\ item.video.state # "none" =>
                  item.video.key = videoKey(reqs.route, body, awaitedValue(item.story))

(***************************************************************************)
(* Claims about the storyline key (StorylineKeySpec).                      *)
(***************************************************************************)
\* What the claim makes the key a function of.
KeyComponents(req) ==
    <<req.body.tweet_text, req.body.author, req.classification,
      req.body.thread_context, req.body.user_bio, req.body.user_followers,
      req.body.replying_to>>

\* The two keys are equal although the hashed strings are not.
StorylineKeyCollision ==
    /\ reqs.pc = "keyed"
    /\ reqs.keyA = reqs.keyB
    /\ paramStrOf(storylineParams(reqs.route, reqs.a.body, reqs.a.classification))
          # paramStrOf(storylineParams(reqs.route, reqs.b.body, reqs.b.classification))

\* C17: two single-tweet requests that differ in text, author,
\* classification or context (thread context, author bio, followers,
\* replying-to) have different storyline keys, hash collisions aside; two
\* that agree in all of them have the same key.
C17_KeySeparatesRequests ==
    reqs.pc = "keyed" =>
        /\ KeyComponents(reqs.a) = KeyComponents(reqs.b) => reqs.keyA = reqs.keyB
        /\ KeyComponents(reqs.a) # KeyComponents(reqs.b) =>
              (reqs.keyA # reqs.keyB \/ StorylineKeyCollision)

(***************************************************************************)
(* Claims about generateKey (KeySpec).                                     *)
(***************************************************************************)
\* The name/value pairs an object holds, whatever their insertion order.
pairsOf(obj) == {obj.props[i] : i \in 1..Len(obj.props)}

\* The two keys are equal although the hashed strings are not.
KeyCollision ==
    /\ reqs.pc = "keyed"
    /\ reqs.keyA = reqs.keyB
    /\ paramStrOf(reqs.a.params) # paramStrOf(reqs.b.params)

\* C18: two calls of generateKey whose prefixes differ, or whose params
\* differ in the value of a parameter (a difference inside a nested object
\* included), return different keys, collisions of the hash aside.
C18_KeyDistinguishesInputs ==
    (/\ reqs.pc = "keyed"
     /\ \/ reqs.a.prefix # reqs.b.prefix
        \/ pairsOf(reqs.a.params) # pairsOf(reqs.b.params))
        => (reqs.keyA # reqs.keyB \/ KeyCollision)

\* C19: two calls of generateKey with the same prefix and params of the
\* same name/value pairs, in whatever insertion order, return the same key.
C19_KeyIgnoresInsertionOrder ==
    (/\ reqs.pc = "keyed"
     /\ reqs.a.prefix = reqs.b.prefix
     /\ pairsOf(reqs.a.params) = pairsOf(reqs.b.params))
        => reqs.keyA = reqs.keyB

\* The same pairs inserted in two orders, and one key.
C19_Witness ==
    /\ reqs.pc = "keyed"
    /\ reqs.a.prefix = reqs.b.prefix
    /\ reqs.a.params # reqs.b.params
    /\ pairsOf(reqs.a.params) = pairsOf(reqs.b.params)
    /\ \E i \in 1..Len(reqs.a.params.props) : reqs.a.params.props[i][2].type = "object"
    /\ reqs.keyA = reqs.keyB

(***************************************************************************)
(* Claims about get (GetSpec).                                             *)
(***************************************************************************)
\* The last get found an entry and read a time not past its expiresAt.
GotLive ==
    /\ reqs.pc = "got"
    /\ reqs.before # Undefined
    /\ reqs.at <= reqs.before.expiresAt

\* C20: get(key) returns the stored value if the key has an entry and the
\* time is not past its expiresAt, the time expiresAt itself included, and
\* leaves the entry; otherwise it returns undefined, and an entry that has
\* expired is gone from the store after that get.
C20_GetServesUntilExpiry ==
    reqs.pc = "got" =>
        IF GotLive
        THEN reqs.value = reqs.before.value /\ reqs.after = reqs.before
        ELSE reqs.value = Undefined /\ reqs.after = Undefined

\* A get at exactly expiresAt that is served the value.
C20_Witness ==
    /\ GotLive
    /\ reqs.at = reqs.before.expiresAt
    /\ reqs.value = Str("v1")
    /\ reqs.after = reqs.before

(***************************************************************************)
(* Claims about the stored entries (OpsSpec, CacheSpec).                   *)
(***************************************************************************)
\* C21: every stored entry has expiresAt = createdAt + ttl, ttl being the
\* ttl given to the set that stored it.
C21_ExpiresAtIsCreatedAtPlusTtl ==
    \A key \in DOMAIN cache :
        cache[key].expiresAt = cache[key].createdAt + hist[key]

\* C22: a getOrCompute that starts while another call on the same key is
\* still computing, the key having no entry it could be served from, misses
\* and invokes its compute function: getOrCompute does not single-flight.
C22_OverlappingCallsEachCompute ==
    [][\A c \in Callers, key \in CacheKeys :
          (/\ calls[c].pc = "idle"
           /\ calls'[c].pc # "idle"
           /\ calls'[c].key = key
           /\ \E d \in Callers \ {c} :
                 calls[d].pc = "computing" /\ calls[d].key = key
           /\ get(cache, key, now).value = Undefined)
              => (calls'[c].pc = "computing" /\ calls'[c].invoked)]_vars

\* Every caller is computing the same key: computeFn has run once per call.
C22_Witness ==
    /\ \A c \in Callers :
          calls[c].pc = "computing" /\ calls[c].key = "k1" /\ calls[c].invoked
    /\ "k1" \notin DOMAIN cache
    /\ ncalls = Cardinality(Callers)

(***************************************************************************)
(* Claims about a repeated request (Spec).                                 *)
(***************************************************************************)
\* The request in hand repeats the body of the request answered with 200
\* just before it, the cache has not been cleared since, and its
\* classification is that of the request before.
Repeats(q) ==
    /\ q.pc # "idle"
    /\ reqs.prev # <<>>
    /\ q.classification = reqs.prev[1].classification

\* The GrokClient calls a request has begun.
Called(q, name) == \E n \in 1..Len(q.log) : q.log[n] = name

\* C23: a request that repeats the text and author of the request answered
\* before it, with the same classification and before the storyline entry
\* expires, does not call generateStoryline and has the cached storyline,
\* narrator included; before the video entry expires it does not call the
\* video generator either.
C23_RepeatIsServedFromCache ==
    \A r \in Requests :
        LET q == reqs.of[r] IN
        (Repeats(q) /\ q.story.state # "none" /\ now <= reqs.prev[1].storyDeadline) =>
            /\ q.story.from = "hit"
            /\ awaitedValue(q.story) = reqs.prev[1].storyline
            /\ ~Called(q, "generateStoryline+")
            /\ (q.pc \in {"media", "done"} /\ now <= reqs.prev[1].videoDeadline) =>
                  /\ ~Called(q, "generateVideo+")
                  /\ ~Called(q, "generateCohesiveVideo+")

\* A repeated request answered with the video of the first, no generator
\* called for the storyline or the video.
C23_Witness ==
    \E r \in Requests :
        LET q == reqs.of[r] IN
        /\ Repeats(q)
        /\ q.pc = "done"
        /\ q.response[1].status = 200
        /\ now <= reqs.prev[1].storyDeadline
        /\ q.story.from = "hit"
        /\ q.video.from = "hit"
        /\ getField(reqs.prev[1].storyline, "narrator") = Chars(text_HomerSimpson)
        /\ ~Called(q, "generateStoryline+")
        /\ ~Called(q, "generateVideo+")

(***************************************************************************)
(* Claims about generateStoryline and classifyTweet (GrokSpec).            *)
(***************************************************************************)
\* generateStoryline has returned a storyline.
StorylineReturned ==
    /\ reqs.pc = "returned"
    /\ reqs.method = "generateStoryline"
    /\ reqs.outcome[1].kind = "return"

\* The text of the model held a JSON object.
ParsedObject == reqs.reply.match /\ reqs.reply.parses

\* C24: every storyline generateStoryline returns, parsed or templated, has
\* a scenes field that is a non-empty array; when the object of the model
\* has no scenes array, scenes is the array of its videoPrompt alone.
C24_ScenesIsNonEmptyArray ==
    StorylineReturned =>
        LET storyline == reqs.outcome[1].value
            scenes == getField(storyline, "scenes")
            given == getField(reqs.reply.parsed, "scenes")
        IN  /\ scenes.type = "array"
            /\ Len(scenes.items) >= 1
            /\ (ParsedObject /\ given.type # "array") =>
                  scenes.items = <<getField(reqs.reply.parsed, "videoPrompt")>>

\* C25: with an OK response, generateStoryline does not raise whatever the
\* text of the model is; when the text holds no JSON object or JSON.parse
\* rejects it, the call returns the template of the classification: Elon
\* Musk and 'no_slop' for no_slop, the character drawn and 'slop' otherwise.
C25_TextNeverRaises ==
    (/\ reqs.pc = "returned"
     /\ reqs.method = "generateStoryline"
     /\ reqs.reply.http = "ok"
     /\ reqs.reply.body = "json") =>
        LET storyline == reqs.outcome[1].value IN
        /\ reqs.outcome[1].kind = "return"
        /\ ~ParsedObject =>
              IF reqs.classification = "no_slop"
              THEN /\ getField(storyline, "narrator") = Chars(text_ElonMusk)
                   /\ getField(storyline, "classification") = Chars(text_no_slop)
                   /\ getField(storyline, "title") = Str("Breaking Tech News")
              ELSE /\ getField(storyline, "narrator") = Chars(characters[reqs.character])
                   /\ getField(storyline, "classification") = Chars(text_slop)
                   /\ getField(storyline, "title") = Str("Trash Opinion Alert")

\* A text with braces that JSON.parse rejects, answered with the template
\* of no_slop.
C25_Witness ==
    /\ StorylineReturned
    /\ reqs.reply.http = "ok"
    /\ reqs.reply.match
    /\ ~reqs.reply.parses
    /\ reqs.classification = "no_slop"
    /\ getField(reqs.outcome[1].value, "narrator") = Chars(text_ElonMusk)

\* The text is no_slop in small or capital letters with nothing but white
\* space before and after it.
IsNoSlopText(content) ==
    /\ content.type = "string"
    /\ LET c == content.codes
           n == Len(text_no_slop)
       IN  \E i \in 1..(Len(c) + 1) :
              /\ i + n - 1 <= Len(c)
              /\ \A k \in 1..(i - 1) : c[k] \in WhiteSpace
              /\ \A k \in 1..n :
                    \/ c[i + k - 1] = text_no_slop[k]
                    \/ /\ text_no_slop[k] >= 97
                       /\ text_no_slop[k] <= 122
                       /\ c[i + k - 1] = text_no_slop[k] - 32
              /\ \A k \in (i + n)..Len(c) : c[k] \in WhiteSpace

\* C26: with an OK response classifyTweet returns, and returns 'no_slop'
\* exactly when the text of the model, lower-cased and trimmed, is no_slop;
\* for every other text, an empty or a missing one included, 'slop'.
C26_ClassifyIsTwoValued ==
    (/\ reqs.pc = "returned"
     /\ reqs.method = "classifyTweet"
     /\ reqs.reply.http = "ok"
     /\ reqs.reply.body = "json") =>
        /\ reqs.outcome[1].kind = "return"
        /\ reqs.outcome[1].type \in {"slop", "no_slop"}
        /\ reqs.outcome[1].type = "no_slop" <=> IsNoSlopText(reqs.reply.content)

\* No_Slop with a blank before and a line end after it, classified no_slop.
C26_Witness ==
    /\ reqs.pc = "returned"
    /\ reqs.method = "classifyTweet"
    /\ reqs.reply.content = Chars(<<32, 78, 111, 95, 83, 108, 111, 112, 10>>)
    /\ reqs.outcome[1].kind = "return"
    /\ reqs.outcome[1].type = "no_slop"

\* The result generateThumbnail returns in place of a thumbnail.
NoThumbnail(branch) ==
    /\ branch.state = "fulfilled"
    /\ getField(branch.value[1], "thumbnailUrl") = Null
    /\ getField(branch.value[1], "isDemo") = TRUE

\* C27: generateThumbnail does not raise: the thumbnail branch of a request
\* is rejected only where the client has no such method, and a failure of
\* the image API ends in the result with thumbnailUrl null; a request whose
\* storyline and video are there is answered with 200 whatever became of
\* the thumbnail, with thumbnail_url null when there is none.
C27_ThumbnailFailureIsNoError ==
    \A r \in Requests :
        LET q == reqs.of[r] IN
        Standard(q) =>
            /\ q.thumb.state = "rejected" =>
                  q.thumb.reason = <<"getGrok(...).generateThumbnail is not a function">>
            /\ (q.pc = "done" /\ q.story.state = "fulfilled"
                              /\ q.video.state = "fulfilled") =>
                  /\ q.response[1].status = 200
                  /\ (q.thumb.state = "rejected" \/ NoThumbnail(q.thumb)) =>
                        q.response[1].thumbnail_url = Null

\* The image API failed, the call returned the result without thumbnail,
\* and the request is answered with 200 and a null thumbnail_url.
C27_Witness ==
    \E r \in Requests :
        LET q == reqs.of[r] IN
        /\ q.pc = "done" /\ Standard(q)
        /\ NoThumbnail(q.thumb) /\ q.thumb.from = "computed"
        /\ q.response[1].status = 200
        /\ q.response[1].thumbnail_url = Null

\* C28: cleanup() removes the entries whose expiresAt is before the time of
\* the call and no other, and the entries that stay are as they were.
C28_CleanupRemovesExactlyExpired ==
    reqs.op = "cleanup" =>
        /\ DOMAIN reqs.after =
              {k \in DOMAIN reqs.before : reqs.at <= reqs.before[k].expiresAt}
        /\ \A k \in DOMAIN reqs.after : reqs.after[k] = reqs.before[k]

\* A cleanup that met an entry past its expiry and an entry at the very
\* millisecond of its expiry: the first is gone, the second stays.
C28_Witness ==
    /\ reqs.op = "cleanup"
    /\ \E k \in DOMAIN reqs.before : reqs.before[k].expiresAt < reqs.at
    /\ \E k \in DOMAIN reqs.after : reqs.after[k].expiresAt = reqs.at

\* The keys of c a get(key) at time t answers with the stored value.
Served(c, t) == {k \in DOMAIN c : get(c, k, t).value # Undefined}

\* C29: getStats() returns valid + expired = total, total being the size of
\* the Map with the expired entries that are still stored, valid the number
\* of entries a get at that time would serve; the Map is left as it was.
C29_StatsAddUp ==
    reqs.op = "getStats" =>
        /\ reqs.result.valid + reqs.result.expired = reqs.result.total
        /\ reqs.result.total = Cardinality(DOMAIN reqs.before)
        /\ reqs.result.valid = Cardinality(Served(reqs.before, reqs.at))
        /\ reqs.after = reqs.before
        /\ cache = reqs.before

\* A getStats over one expired entry that is still stored and one entry at
\* the millisecond of its expiry.
C29_Witness ==
    /\ reqs.op = "getStats"
    /\ reqs.result = [total |-> 2, valid |-> 1, expired |-> 1]
    /\ \E k \in DOMAIN reqs.before : reqs.before[k].expiresAt = reqs.at

\* The field is not in the body, or is null or the empty string.
Absent(x) == x \in {Undefined, Null, Str(""), Chars(<<>>)}

\* The step is the arrival of a request r without tweet_text or author.
ArrivesIncomplete(r) ==
    /\ reqs'.started = reqs.started + 1
    /\ \/ Absent(reqs'.of[r].body[1].tweet_text)
       \/ Absent(reqs'.of[r].body[1].author)

\* C30: a request without tweet_text or without author is answered with
\* 400 and the validation message at once: no call of classifyTweet, of
\* generateStoryline or of a media method begins, no step of the pipeline
\* is started, and the cache is as it was.
C30_IncompleteRequestIsRejected ==
    [][\A r \in Requests :
          ArrivesIncomplete(r) =>
              LET q == reqs'.of[r] IN
              /\ q.pc = "done"
              /\ q.response = <<validationResponse>>
              /\ q.response[1].status = 400
              /\ q.log = <<>>
              /\ q.classified = "none"
              /\ q.story.state = "none" /\ q.video.state = "none"
              /\ q.thumb.state = "none" /\ q.cohesive.state = "none"
              /\ cache' = cache]_vars

\* A request with tweet_text and no author, rejected while the cache holds
\* the entries of the request before it.
C30_Witness ==
    \E r \in Requests :
        LET q == reqs.of[r] IN
        /\ q.pc = "done"
        /\ q.body[1].tweet_text = Chars(<<103, 109>>)
        /\ q.body[1].author = Undefined
        /\ q.response[1].status = 400
        /\ q.log = <<>>
        /\ cache # emptyMap

(***************************************************************************)
(* Claims about the JSON extraction (ExtractSpec).                         *)
(***************************************************************************)
\* The position of the } that closes the { at position i: the first
\* position from i + 1 on where as many } as { have been met; 0 if none.
RECURSIVE closingBrace(_, _, _)
closingBrace(text, i, depth) ==
    IF i > Len(text) THEN 0
    ELSE IF text[i] = 125
    THEN IF depth = 1 THEN i ELSE closingBrace(text, i + 1, depth - 1)
    ELSE IF text[i] = 123 THEN closingBrace(text, i + 1, depth + 1)
    ELSE closingBrace(text, i + 1, depth)

\* The first balanced {...} span of the text; <<>> if there is none.
FirstBalancedSpan(text) ==
    LET opens == {i \in 1..Len(text) : text[i] = 123}
        first == CHOOSE i \in opens : \A k \in opens : i <= k
        close == closingBrace(text, first + 1, 1)
    IN  IF opens = {} THEN <<>>
        ELSE IF close = 0 THEN <<>>
        ELSE SubSeq(text, first, close)

\* The first balanced span of the text is a well-formed JSON object.
HoldsObjectFirst ==
    /\ FirstBalancedSpan(reqs.text) # <<>>
    /\ JSONparse(FirstBalancedSpan(reqs.text)).ok

\* C32: when the first balanced {...} span of the text is a well-formed
\* JSON object, whatever prose is around it, braces after it included, the
\* storyline returned is that object (with scenes and classification), and
\* not the template.
C32_FirstBalancedSpanIsParsed ==
    (reqs.pc = "returned" /\ HoldsObjectFirst) =>
        /\ reqs.outcome[1].kind = "return"
        /\ reqs.outcome[1].value =
              completeParsed(JSONparse(FirstBalancedSpan(reqs.text)).value,
                             reqs.classification)

(***************************************************************************)
(* Claims about the video prompt (VideoPromptSpec).                        *)
(***************************************************************************)
\* C33: the template of the video prompt follows the classification of the
\* request: news-anchor for no_slop, trash-throw for slop, whatever the
\* narrator of the storyline.
C33_TemplateFollowsClassification ==
    reqs.pc = "submitted" =>
        reqs.sent[1].template = IF reqs.classification = "no_slop"
                                THEN "news-anchor" ELSE "trash-throw"

(***************************************************************************)
(* Claims about the submission of video jobs (SubmitSpec).                 *)
(***************************************************************************)
\* The job ids the answer of the submission carries.
JobIds ==
    IF reqs.answer.http = "ok"
    THEN {x \in {reqs.answer.request_id, reqs.answer.id} :
             x.type = "string" /\ x # Str("")}
    ELSE {}

\* No delay has been waited and no status has been asked for.
NeverPolled == reqs.sleeps = 0 /\ reqs.asked = <<>>

\* C34: a status check asks for a job id the successful submission
\* returned; a submission answered with a non-OK status raises with no
\* delay and no status check; a submission that yielded no job id is not
\* polled.
C34_ChecksTargetSubmittedJob ==
    /\ \A n \in 1..Len(reqs.asked) : reqs.asked[n] \in JobIds
    /\ reqs.answer.http \notin {"ok", "throw"} =>
          (reqs.pc # "submitting" => (reqs.pc = "raised" /\ NeverPolled))
    /\ JobIds = {} => NeverPolled

(***************************************************************************)
(* Claims about the cached thumbnail (Spec).                               *)
(***************************************************************************)
\* The value is the result generateThumbnail returns for a failure.
IsSentinel(value) ==
    /\ getField(value, "thumbnailUrl") = Null
    /\ getField(value, "isDemo") = TRUE

\* The step stores the failure result of the thumbnail branch of q under
\* the thumbnail key, for CACHE_TTL.THUMBNAIL from now.
StoresSentinel(q, qNext) ==
    (Standard(q) /\ q.thumb.state = "computing" /\ NoThumbnail(qNext.thumb)) =>
        /\ qNext.thumb.key \in DOMAIN cache'
        /\ IsSentinel(cache'[qNext.thumb.key].value)
        /\ cache'[qNext.thumb.key].expiresAt = now + CACHE_TTL_THUMBNAIL

\* The step starts the thumbnail branch of a request whose thumbnail key
\* holds a failure result that has not expired: the branch is a hit with
\* that result.
ServesSentinel(q, qNext) ==
    (/\ Standard(qNext)
     /\ q.thumb.state = "none" /\ qNext.thumb.state # "none"
     /\ qNext.thumb.key \in DOMAIN cache
     /\ IsSentinel(cache[qNext.thumb.key].value)
     /\ now <= cache[qNext.thumb.key].expiresAt) =>
        /\ qNext.thumb.from = "hit"
        /\ NoThumbnail(qNext.thumb)
        /\ qNext.thumb.state = "fulfilled"

\* C35: the failure result of generateThumbnail is stored under the
\* thumbnail key with the thumbnail TTL; a request whose thumbnail prompt
\* has that key and that comes before the entry expires is served the null
\* thumbnail from the cache, generateThumbnail is not called for it, and
\* its response has thumbnail_url null.
C35_FailedThumbnailIsCached ==
    /\ [](\A r \in Requests :
            LET q == reqs.of[r] IN
            (Standard(q) /\ q.thumb.from = "hit" /\ NoThumbnail(q.thumb)) =>
                /\ ~Called(q, "generateThumbnail+")
                /\ (q.pc = "done" /\ q.video.state = "fulfilled") =>
                      /\ q.response[1].status = 200
                      /\ q.response[1].thumbnail_url = Null)
    /\ [][\A r \in Requests :
            /\ StoresSentinel(reqs.of[r], reqs'.of[r])
            /\ ServesSentinel(reqs.of[r], reqs'.of[r])]_vars

\* The second request of a behaviour, served the null thumbnail the first
\* one stored.
C35_Witness ==
    \E r \in Requests :
        LET q == reqs.of[r] IN
        /\ q.pc = "done" /\ Standard(q)
        /\ reqs.started = 2
        /\ q.thumb.from = "hit" /\ NoThumbnail(q.thumb)
        /\ ~Called(q, "generateThumbnail+")
        /\ q.response[1].status = 200
        /\ q.response[1].thumbnail_url = Null

(***************************************************************************)
(* Claims about what getOrCompute takes for a hit (HitSpec).               *)
(***************************************************************************)
\* The Map holds under the key an entry that has not expired.
LiveEntry(c, key, t) == key \in DOMAIN c /\ t <= c[key].expiresAt

\* The step is the start of a getOrCompute of caller c.
Starts(c) == calls[c].pc = "idle" /\ calls'[c].pc # "idle"

\* C36: getOrCompute invokes computeFn exactly when the key has no live
\* entry or the value of its entry is undefined, and returns the stored
\* value otherwise, null, 0, false and the empty string included; a compute
\* function that resolves with undefined has its value stored, and the
\* calls on the key that follow invoke computeFn again.
C36_UndefinedIsNeverAHit ==
    [][\A c \in Callers :
          /\ Starts(c) =>
                LET key == calls'[c].key
                    served == /\ LiveEntry(cache, key, now)
                              /\ cache[key].value # Undefined
                IN  /\ calls'[c].invoked <=> ~served
                    /\ served => /\ calls'[c].pc = "done"
                                 /\ calls'[c].result = cache[key].value
                    /\ ~served => calls'[c].pc = "computing"
          /\ (calls[c].pc = "computing" /\ calls'[c].pc = "done") =>
                /\ calls'[c].key \in DOMAIN cache'
                /\ cache'[calls'[c].key].value = calls'[c].result]_vars

\* A call computes again although the entry of its key, stored by a
\* compute function that resolved with undefined, has not expired.
C36_Witness ==
    \E c \in Callers :
        /\ calls[c].pc = "computing" /\ calls[c].invoked
        /\ LiveEntry(cache, calls[c].key, now)
        /\ cache[calls[c].key].value = Undefined
        /\ calls[c].first # <<>>
        /\ calls[c].first[1].outcome = "computed"

(***************************************************************************)
(* Claims about overlapping getOrCompute calls (CacheSpec).                *)
(***************************************************************************)
\* The calls of c and d on one key have been computing at the same time.
Overlapped(c, d) ==
    /\ c # d
    /\ calls[c].pc # "idle" /\ calls[d].pc # "idle"
    /\ calls[c].key = calls[d].key
    /\ calls[c].invoked /\ calls[d].invoked
    /\ ~calls[c].solo /\ ~calls[d].solo

\* C37: of two overlapping getOrCompute calls on a key, the one whose
\* computation ends stores its own value with its own expiry over whatever
\* the other has stored, and the other, if it has its value already, keeps
\* it; so the entry is that of the computation that ended last.  A
\* computation that fails leaves the Map, with what the other stored, as it
\* is.
C37_LastWriterWins ==
    [][\A c, d \in Callers :
          (Overlapped(c, d) /\ calls[c].pc = "computing" /\ calls'[c].pc = "done") =>
              LET key == calls[c].key IN
              /\ calls'[c].outcome = "computed" =>
                    /\ key \in DOMAIN cache'
                    /\ cache'[key].value = calls'[c].result
                    /\ cache'[key].expiresAt = now + calls[c].ttl
              /\ calls'[c].outcome = "raised" => cache' = cache
              /\ calls[d].pc = "done" =>
                    /\ calls'[d].result = calls[d].result
                    /\ calls'[d].outcome = calls[d].outcome]_vars

\* Two overlapping calls have ended with different values, and the entry is
\* that of the one that ended after the clock had moved on.
C37_Witness ==
    \E c, d \in Callers :
        /\ Overlapped(c, d)
        /\ calls[c].pc = "done" /\ calls[d].pc = "done"
        /\ calls[c].outcome = "computed" /\ calls[d].outcome = "computed"
        /\ calls[c].result = Str("v1") /\ calls[d].result = Str("v2")
        /\ cache[calls[d].key].value = Str("v2")
        /\ cache[calls[d].key].expiresAt = TickStep + calls[d].ttl

(***************************************************************************)
(* Claims about the two phases of the batch handler (BatchSpec).           *)
(***************************************************************************)
\* The storyline step of some tweet of the batch has not settled.
StorylinePending ==
    \E n \in 1..Len(reqs.items) : reqs.items[n].first.status = "pending"

\* The step begins the video step of tweet m.
VideoBegins(m) ==
    /\ m \in 1..Len(reqs.items) /\ m \in 1..Len(reqs'.items)
    /\ reqs.items[m].video.state = "none"
    /\ reqs'.items[m].video.state # "none"

\* C38: while the storyline step of one tweet of the batch has not settled
\* no tweet of the batch has a video (or thumbnail) step, those whose
\* storyline is there included; the video steps begin in one step of the
\* handler, after the last storyline has settled, for all the tweets that
\* have a storyline.
C38_VideosWaitForAllStorylines ==
    /\ [](StorylinePending =>
            /\ reqs.pc = "storylines"
            /\ \A m \in 1..Len(reqs.items) :
                  /\ reqs.items[m].video.state = "none"
                  /\ reqs.items[m].thumb.state = "none")
    /\ [][(\E m \in 1..MAX_BATCH_SIZE : VideoBegins(m)) =>
             /\ ~StorylinePending
             /\ \A n \in 1..Len(reqs.items) :
                   /\ reqs.items[n].story.state # "computing"
                   /\ reqs.items[n].story.state = "fulfilled" =>
                         reqs'.items[n].video.state # "none"]_vars

\* The storyline of the first tweet is there, that of the second is not,
\* and the video of the first has not begun.
C38_Witness ==
    /\ reqs.pc = "storylines"
    /\ Len(reqs.items) >= 2
    /\ reqs.items[1].story.state = "fulfilled"
    /\ reqs.items[1].story.from = "computed"
    /\ reqs.items[1].first.status = "fulfilled"
    /\ reqs.items[1].first.error = <<>>
    /\ reqs.items[2].story.state = "computing"
    /\ reqs.items[1].video.state = "none"

(***************************************************************************)
(* Claims about the end of the single-tweet handler (FairSpec).            *)
(***************************************************************************)
\* The handler of request r is between its first await and its response.
Running(r) == reqs.of[r].pc \notin {"idle", "done"}

\* A success payload, or an error object: a status and a message.
IsResponse(response) ==
    \/ response.status = 200 /\ response.error = <<>>
    \/ /\ response.status \in {400, 500}
       /\ response.error # <<>>
       /\ response.video_url = Undefined

\* The handler of request r awaits a call that has not settled.
AwaitsCall(r) ==
    LET q == reqs.of[r]
    IN  \/ q.pc = "storyline" /\ q.story.state = "computing"
        \/ /\ q.pc = "media"
           /\ \E branch \in {q.video, q.thumb, q.cohesive} : branch.state = "computing"

\* C31: every request the handler has received is answered: the handler
\* that runs reaches its end (while it runs it awaits a call or can go on);
\* at its end it has sent one response, a success payload or an error
\* object, before its end none; and the response sent stays as it is until
\* the next request arrives.
C31_OneResponseInTheEnd ==
    /\ \A r \in Requests : Running(r) ~> (reqs.of[r].pc = "done")
    /\ [](\A r \in Requests :
             /\ Running(r) => AwaitsCall(r) \/ CanResume(r)
             /\ Len(reqs.of[r].response) = (IF reqs.of[r].pc = "done" THEN 1 ELSE 0)
             /\ \A n \in 1..Len(reqs.of[r].response) :
                   IsResponse(reqs.of[r].response[n]))
    /\ [][\A r \in Requests :
             reqs.of[r].response # <<>> /\ reqs'.started = reqs.started =>
                reqs'.of[r].response = reqs.of[r].response]_vars

\* The storyline call of a request failed, and the request has its error
\* response.
C31_Witness ==
    \E r \in Requests :
        /\ reqs.of[r].pc = "done"
        /\ reqs.of[r].story.state = "rejected"
        /\ Len(reqs.of[r].response) = 1
        /\ reqs.of[r].response[1].status = 500

====
